---- MODULE Spec2Model ----
(***************************************************************************)
(* PortfolioPro API server (server.ts): the relational tables, the request *)
(* handlers of the REST surface and the helpers they call.  Each request   *)
(* occupies a slot of req; a handler advances one awaited database call    *)
(* (or file operation) per step, so that concurrent requests interleave    *)
(* exactly where the code awaits.                                          *)
(***************************************************************************)
EXTENDS Integers, Sequences, FiniteSets, TLC

\* ------------------------------------------------------------------ bounds
MaxReq      == 2   \* request slots of the concurrent specifications
MaxUsers    == 3   \* rows of users
MaxSites    == 3   \* rows of portfolio_sites
MaxProjects == 2   \* rows of portfolio_projects
MaxAssets   == 2   \* rows of image_assets
MaxFiles    == 2   \* files in the storage directory
MaxClock    == 2   \* ticks of the wall clock
MaxNewIds   == 2   \* uuidv4() values and file names generated in one run
MaxSubmissions == 1 \* rows of contact_submissions
MaxToasts   == 3   \* toasts emitted in one run

\* ------------------------------------------------------------------ values
NULL    == "NULL"          \* JSON null / SQL NULL of a scalar column
NullSeq == <<"NULL">>      \* SQL NULL of a column whose values are sequences
NullTs  == 0               \* SQL NULL of a timestamp column
MissingId == 0             \* an id no row carries (uuids are never 0)
FirstId   == 10            \* the first identifier generated after the seed rows
NoToken   == 0             \* request without Authorization header
BadToken  == -1            \* a token jwt.verify rejects (malformed, expired)

\* Text that the code transforms is a sequence of characters.
UpperToLower == [c \in {"A", "B", "C"} |-> IF c = "A" THEN "a" ELSE IF c = "B" THEN "b" ELSE "c"]
LowerAlnum   == {"a", "b", "l", "o", "0", "1", "2", "3", "4", "5", "6", "7", "8", "9"}
DigitChar    == <<"0", "1", "2", "3", "4", "5", "6", "7", "8", "9">>

toLowerCase(s) ==
    [i \in 1..Len(s) |-> IF s[i] \in DOMAIN UpperToLower THEN UpperToLower[s[i]] ELSE s[i]]

RECURSIVE trimLeft(_)
trimLeft(s) == IF s /= <<>> /\ Head(s) = " " THEN trimLeft(Tail(s)) ELSE s

RECURSIVE trimRight(_)
trimRight(s) ==
    IF s /= <<>> /\ s[Len(s)] = " " THEN trimRight(SubSeq(s, 1, Len(s) - 1)) ELSE s

trim(s) == trimRight(trimLeft(s))

\* String(counter): the decimal digits of a natural number.
RECURSIVE numberToString(_)
numberToString(n) ==
    IF n < 10 THEN <<DigitChar[n + 1]>>
    ELSE numberToString(n \div 10) \o <<DigitChar[(n % 10) + 1]>>

\* (variant: the username is not lower-cased before it is stripped)
base_subdomain_CaseKept(username) ==
    SelectSeq(username, LAMBDA c : c \in LowerAlnum)

\* username.toLowerCase().replace(/[^a-z0-9]/g, '')
base_subdomain(username) ==
    SelectSeq(toLowerCase(username), LAMBDA c : c \in LowerAlnum)

\* A JSON object is the sequence of its <<key, value>> entries.
Has(body, key) == \E i \in 1..Len(body) : body[i][1] = key
Get(body, key) == body[CHOOSE i \in 1..Len(body) : body[i][1] = key][2]
GetOr(body, key, dflt) == IF Has(body, key) THEN Get(body, key) ELSE dflt
\* !value for a text field: undefined, null and '' are falsy
\* (variant: a test that takes every body as complete)
Missing_Never(body, key) == FALSE

Missing(body, key) == ~Has(body, key) \/ Get(body, key) \in {NULL, ""}
\* !value for a field whose value is a character sequence
MissingSeq(body, key) == ~Has(body, key) \/ Get(body, key) \in {NullSeq, <<>>}

SeqToSet(s) == {s[i] : i \in 1..Len(s)}
Remove(s, i) == SubSeq(s, 1, i - 1) \o SubSeq(s, i + 1, Len(s))

\* ------------------------------------------------------------------ state
VARIABLES
    users,      \* table users
    sites,      \* table portfolio_sites
    projects,   \* table portfolio_projects
    assets,     \* table image_assets
    files,      \* file names present in storage_dir
    req,        \* request slots: handler, position, locals, response
    now,        \* wall clock (CURRENT_TIMESTAMP, new Date())
    nextId,     \* source of uuidv4() values
    tz,         \* time zone offset of the server process, in hours
    submissions, \* table contact_submissions
    client      \* the browser: zustand store and component state

vars == <<users, sites, projects, assets, files, req, now, nextId, tz, submissions, client>>


\* ------------------------------------------------------------------ tables
UserIds    == {users[i].id : i \in DOMAIN users}
SiteIdsOf(t) == {t[i].site_id : i \in DOMAIN t}

SiteColumns ==
    {"site_id", "user_id", "site_title", "tagline", "hero_image_url", "about_text",
     "template_id", "primary_color", "font_family", "is_dark_mode", "seo_title",
     "seo_description", "subdomain", "published_at", "export_zip_url", "created_at",
     "updated_at"}

ProjectColumns ==
    {"project_id", "site_id", "title", "description", "date", "tags", "demo_url",
     "code_url", "images", "order_index", "created_at", "updated_at"}

\* PostgreSQL folds an unquoted identifier to lower case before it resolves it.
UpperIdentifiers ==
    [k \in {"SITE_ID", "PROJECT_ID", "USER_ID"} |->
        CASE k = "SITE_ID" -> "site_id"
          [] k = "PROJECT_ID" -> "project_id"
          [] OTHER -> "user_id"]

pgIdentifier(key) ==
    IF key \in DOMAIN UpperIdentifiers THEN UpperIdentifiers[key] ELSE key

\* Constraints of portfolio_sites: primary key, NOT NULL, UNIQUE(subdomain),
\* the foreign key to users, and the foreign keys that reference site_id.
\* (variant: the table created without the UNIQUE constraint)
SubdomainUnique_Absent(t) == TRUE

SubdomainUnique(t) ==
    \A i, j \in DOMAIN t :
        (i /= j /\ t[i].subdomain /= NullSeq) => t[i].subdomain /= t[j].subdomain

SitesConstraints(t) ==
    /\ \A i, j \in DOMAIN t : i /= j => t[i].site_id /= t[j].site_id
    /\ \A i \in DOMAIN t : t[i].user_id \in UserIds /\ t[i].site_title /= NULL
    /\ SubdomainUnique(t)
    /\ \A i \in DOMAIN projects : projects[i].site_id \in SiteIdsOf(t)
    /\ \A i \in DOMAIN assets : assets[i].site_id \in SiteIdsOf(t) \cup {MissingId}

\* Constraints of portfolio_projects.
ProjectsConstraints(t) ==
    /\ \A i, j \in DOMAIN t : i /= j => t[i].project_id /= t[j].project_id
    /\ \A i \in DOMAIN t :
          /\ t[i].site_id \in SiteIdsOf(sites)
          /\ t[i].title /= NULL /\ t[i].description /= NULL /\ t[i].date /= NullTs
    /\ \A i \in DOMAIN assets :
          assets[i].project_id \in {t[j].project_id : j \in DOMAIN t} \cup {MissingId}

\* SET col = value, ... applied to one row, left to right.
RECURSIVE ApplySet(_, _)
ApplySet(row, assigns) ==
    IF assigns = <<>> THEN row
    ELSE ApplySet([row EXCEPT ![pgIdentifier(assigns[1][1])] = assigns[1][2]], Tail(assigns))

\* The statement is rejected when a target is no column of the table or a
\* column is assigned twice.
SetWellFormed(assigns, columns) ==
    /\ \A i \in 1..Len(assigns) : pgIdentifier(assigns[i][1]) \in columns
    /\ \A i, j \in 1..Len(assigns) :
          i /= j => pgIdentifier(assigns[i][1]) /= pgIdentifier(assigns[j][1])

\* Object.entries(updates) filtered by the protected keys of the handler.
update_fields(updates, protected) ==
    SelectSeq(updates, LAMBDA kv : kv[1] \notin protected)

SiteProtected    == {"site_id"}
ProjectProtected == {"id", "project_id", "site_id"}

\* (variant: value_index is not advanced after the updated_at fragment, so the
\* WHERE clause shares its placeholder)
update_query_SharedIndex(updates, protected, id) ==
    LET f == update_fields(updates, protected)
        n == Len(f)
    IN  [set    |-> [i \in 1..n |-> <<f[i][1], i>>] \o << <<"updated_at", n + 1>> >>,
         where  |-> n + 1,
         values |-> [i \in 1..n |-> f[i][2]] \o <<now, id>>]

\* The statement handed to pool.query: the SET fragments `${key} = $i` in
\* encounter order, then `updated_at = $n+1`, WHERE <id column> = $n+2, and
\* the value list.
update_query(updates, protected, id) ==
    LET f == update_fields(updates, protected)
        n == Len(f)
    IN  [set    |-> [i \in 1..n |-> <<f[i][1], i>>] \o << <<"updated_at", n + 1>> >>,
         where  |-> n + 2,
         values |-> [i \in 1..n |-> f[i][2]] \o <<now, id>>]

\* (variant: the trailing updated_at fragment does not reach the database)
BoundAssignments_NoTimestamp(q) ==
    [i \in 1..(Len(q.set) - 1) |-> <<q.set[i][1], q.values[q.set[i][2]]>>]

\* What the database assigns: each SET target with the value bound to its
\* placeholder; and the id its WHERE clause selects.
BoundAssignments(q) == [i \in 1..Len(q.set) |-> <<q.set[i][1], q.values[q.set[i][2]]>>]
BoundId(q) == q.values[q.where]

\* DATE input of PostgreSQL: the calendar day of a date text <<"date", day>>.
DateIn(text) == text[2]
\* node-postgres returns a DATE as a Date at local midnight and res.json
\* writes it as the UTC instant: <<"date", day, "T", hour>>.
DateOut(day) ==
    IF day = NullTs THEN <<"date", NullTs>>
    ELSE IF tz > 0 THEN <<"date", day - 1, "T", 24 - tz>>
    ELSE <<"date", day, "T", 0 - tz>>

ProjectJson(row) == [row EXCEPT !.date = DateOut(row.date)]


\* ------------------------------------------------------------------ requests
PublicOps == {"register", "listProjects", "login", "getUser", "getSite", "contact",
              "preview", "helpDocs", "health"}
\* Routes that answer without a database call.
StaticOps == {"logout", "preview", "dashboardExport", "helpDocs", "health"}
ReadOps   == {"listProjects", "getUser", "getSite", "listSites"}
UploadOps == {"uploadImage", "createAsset"}
SiteOps   == {"updateSite", "publish", "export", "hero", "about", "seo", "theme",
              "createProject", "createAsset"}
ProjectOps == {"updateProject", "deleteProject", "uploadImage"}
AssetOps   == {"updateAsset", "deleteAsset"}
MutatingOps == SiteOps \cup ProjectOps \cup AssetOps

IdleReq ==
    [op |-> "none", pc |-> "idle", token |-> NoToken, user |-> MissingId,
     username |-> <<>>,
     site_id |-> MissingId, target |-> MissingId, body |-> <<>>, file |-> MissingId,
     status |-> 0, resp |-> <<>>, subdomain |-> <<>>, counter |-> 0, snap |-> <<>>,
     log |-> <<>>]

createErrorResponse(code) == [success |-> FALSE, error_code |-> code]

Reply(s, status, resp) == [s EXCEPT !.pc = "done", !.status = status, !.resp = resp]

Logged(s, event) == [s EXCEPT !.log = Append(@, event)]

InternalError(s) == Reply(s, 500, createErrorResponse("INTERNAL_SERVER_ERROR"))

\* authenticateToken: the status it answers with, or 0 when it calls next().
authenticateToken(token) ==
    IF token = NoToken THEN [status |-> 401, code |-> "AUTH_TOKEN_MISSING"]
    ELSE IF token = BadToken THEN [status |-> 403, code |-> "AUTH_TOKEN_INVALID"]
    ELSE IF token \notin UserIds THEN [status |-> 401, code |-> "AUTH_USER_NOT_FOUND"]
    ELSE [status |-> 0, code |-> "next"]

UserRow(id) == users[CHOOSE i \in DOMAIN users : users[i].id = id]

\* upload.single(...): multer stores the file of a multipart request on disk
\* before the handler runs.
StoresFile(q) ==
    /\ q.op \in UploadOps
    /\ q.file
    /\ authenticateToken(q.token).status = 0

MinPasswordLength == 6

\* login: const login_identifier = username || email
login_identifier(body) ==
    IF MissingSeq(body, "username") THEN GetOr(body, "email", NullSeq)
    ELSE Get(body, "username")

\* (variant: the same routes answering in the data envelope)
StaticResponse_Enveloped(op) == [data |-> op]

\* The bodies of the routes that answer without a database call.
StaticResponse(op) ==
    CASE op = "logout" -> [success |-> TRUE]
      [] op = "preview" -> [status |-> "ready", url |-> "picsum.photos"]
      [] op = "dashboardExport" ->
            [export_zip_url |-> <<"exports", now>>, export_path |-> <<"storage", now>>]
      [] op = "helpDocs" -> [content |-> "Quick Start Guide"]
      [] OTHER -> [status |-> "ok", timestamp |-> now, version |-> "1.0.0"]

\* The handler up to its first awaited call.
Prefix(s) ==
    CASE s.op = "createSite" ->
            IF Missing(s.body, "site_title")
            THEN Reply(s, 400, createErrorResponse("MISSING_SITE_TITLE"))
            ELSE [s EXCEPT !.pc = "probe", !.subdomain = base_subdomain(s.username),
                           !.counter = 1]
      [] s.op = "createProject" ->
            IF \/ Missing(s.body, "title") \/ Missing(s.body, "description")
               \/ MissingSeq(s.body, "date")
            THEN Reply(s, 400, createErrorResponse("MISSING_REQUIRED_FIELDS"))
            ELSE [s EXCEPT !.pc = "check"]
      [] s.op = "uploadImage" ->
            IF s.file = MissingId
            THEN Reply(s, 400, createErrorResponse("NO_IMAGE_FILE"))
            ELSE [s EXCEPT !.pc = "check"]
      [] s.op = "createAsset" ->
            IF s.file = MissingId
            THEN Reply(s, 400, createErrorResponse("NO_ASSET_FILE"))
            ELSE [s EXCEPT !.pc = "check"]
      [] s.op = "register" ->
            IF \/ MissingSeq(s.body, "username") \/ MissingSeq(s.body, "email")
               \/ MissingSeq(s.body, "password_hash")
            THEN Reply(s, 400, createErrorResponse("MISSING_REQUIRED_FIELDS"))
            ELSE IF Len(Get(s.body, "password_hash")) < MinPasswordLength
            THEN Reply(s, 400, createErrorResponse("PASSWORD_TOO_SHORT"))
            ELSE [s EXCEPT !.pc = "check"]
      [] s.op = "login" ->
            IF \/ login_identifier(s.body) \in {NullSeq, <<>>}
               \/ MissingSeq(s.body, "password_hash")
            THEN Reply(s, 400, createErrorResponse("MISSING_REQUIRED_FIELDS"))
            ELSE [s EXCEPT !.pc = "check"]
      [] s.op = "contact" ->
            IF MissingSeq(s.body, "email") \/ Missing(s.body, "message")
            THEN Reply(s, 400, createErrorResponse("MISSING_REQUIRED_FIELDS"))
            ELSE [s EXCEPT !.pc = "write"]
      [] s.op \in StaticOps -> Reply(s, 200, StaticResponse(s.op))
      [] s.op \in ReadOps -> [s EXCEPT !.pc = "read"]
      [] OTHER -> [s EXCEPT !.pc = "check"]

\* The request q = [op, token, site_id, target, body, file] passes the
\* middleware chain and enters its handler.
Accept(q) ==
    LET auth == IF q.op \in PublicOps THEN [status |-> 0, code |-> "next"]
                ELSE authenticateToken(q.token)
        s0 == [IdleReq EXCEPT !.op = q.op, !.token = q.token, !.site_id = q.site_id,
                              !.target = q.target, !.body = q.body]
    IN  IF auth.status /= 0
        THEN Reply(s0, auth.status, createErrorResponse(auth.code))
        ELSE LET s1 == IF q.op \in PublicOps THEN s0
                       ELSE [s0 EXCEPT !.user = q.token,
                                       !.username = UserRow(q.token).username]
                 s2 == IF StoresFile(q)
                       THEN Logged([s1 EXCEPT !.file = nextId], "file")
                       ELSE s1
             IN  Prefix(s2)

\* Identifiers a request may still draw: rows it inserts and files it stores.
IdsNeeded(op) ==
    IF op \in UploadOps THEN 2
    ELSE IF op \in {"createSite", "register", "createProject", "export", "contact"}
    THEN 1 ELSE 0

RECURSIVE IdsReserved(_)
IdsReserved(rs) ==
    IF rs = {} THEN 0
    ELSE LET r == CHOOSE x \in rs : TRUE
         IN  (IF req[r].pc \in {"idle", "done"} THEN 0
              ELSE IF req[r].op \in UploadOps
              THEN (IF req[r].pc = "write2" THEN 0 ELSE 1)   \* the file has its name
              ELSE IdsNeeded(req[r].op))
             + IdsReserved(rs \ {r})

InFlight(ops) == Cardinality({r \in DOMAIN req : req[r].op \in ops /\ req[r].pc /= "done"})

\* Room in the bounded tables and storage for what the request may create.
Room(q) ==
    /\ q.op = "createSite" => Len(sites) + InFlight({"createSite"}) < MaxSites
    /\ q.op = "register" => Len(users) + InFlight({"register"}) < MaxUsers
    /\ q.op = "createProject" => Len(projects) + InFlight({"createProject"}) < MaxProjects
    /\ q.op \in UploadOps => Len(assets) + InFlight(UploadOps) < MaxAssets
    /\ q.op = "contact" => Len(submissions) + InFlight({"contact"}) < MaxSubmissions
    /\ q.op \in UploadOps \cup {"export"} =>
          Cardinality(files) + InFlight({"export"}) < MaxFiles
    /\ nextId + IdsReserved(DOMAIN req) + IdsNeeded(q.op) <= FirstId + MaxNewIds

Start(r, q) ==
    /\ req[r].pc = "idle"
    /\ Room(q)
    /\ req' = [req EXCEPT ![r] = Accept(q)]
    /\ files' = IF StoresFile(q) THEN files \cup {nextId} ELSE files
    /\ nextId' = IF StoresFile(q) THEN nextId + 1 ELSE nextId
    /\ UNCHANGED <<users, sites, projects, assets, now, tz, submissions, client>>

\* The client has read the response; the slot serves the next request.
Finish(r) ==
    /\ req[r].pc = "done"
    /\ req' = [req EXCEPT ![r] = IdleReq]
    /\ UNCHANGED <<users, sites, projects, assets, files, now, nextId, tz, submissions, client>>

Tick ==
    /\ now < MaxClock
    /\ now' = now + 1
    /\ UNCHANGED <<users, sites, projects, assets, files, req, nextId, tz, submissions, client>>

\* ------------------------------------------------------------------ POST /api/sites
\* One iteration of the loop of generateUniqueSubdomain: the existence probe.
Probe(r) ==
    /\ req[r].pc = "probe"
    /\ LET s == req[r]
           rows == {i \in DOMAIN sites : sites[i].subdomain = s.subdomain}
       IN  req' = [req EXCEPT ![r] =
                IF rows = {} THEN [s EXCEPT !.pc = "insert"]
                ELSE [s EXCEPT !.subdomain =
                                   base_subdomain(s.username) \o numberToString(s.counter),
                               !.counter = s.counter + 1]]
    /\ UNCHANGED <<users, sites, projects, assets, files, now, nextId, tz, submissions, client>>

\* (variant: the owner is taken from the request body when it names one)
NewSite_BodyOwner(s, id) ==
    [site_id |-> id, user_id |-> GetOr(s.body, "user_id", s.user),
     site_title |-> Get(s.body, "site_title"),
     tagline |-> NULL, hero_image_url |-> NULL, about_text |-> NULL,
     template_id |-> NULL, primary_color |-> NULL, font_family |-> NULL,
     is_dark_mode |-> FALSE, seo_title |-> NULL, seo_description |-> NULL,
     subdomain |-> s.subdomain, published_at |-> NullTs, export_zip_url |-> MissingId,
     created_at |-> now, updated_at |-> now]

NewSite(s, id) ==
    [site_id |-> id, user_id |-> s.user, site_title |-> Get(s.body, "site_title"),
     tagline |-> GetOr(s.body, "tagline", NULL),
     hero_image_url |-> GetOr(s.body, "hero_image_url", NULL),
     about_text |-> GetOr(s.body, "about_text", NULL),
     template_id |-> GetOr(s.body, "template_id", NULL),
     primary_color |-> GetOr(s.body, "primary_color", NULL),
     font_family |-> GetOr(s.body, "font_family", NULL),
     is_dark_mode |-> GetOr(s.body, "is_dark_mode", FALSE),
     seo_title |-> GetOr(s.body, "seo_title", NULL),
     seo_description |-> GetOr(s.body, "seo_description", NULL),
     subdomain |-> s.subdomain, published_at |-> NullTs, export_zip_url |-> MissingId,
     created_at |-> now, updated_at |-> now]

\* INSERT INTO portfolio_sites ... RETURNING *
InsertSite(r) ==
    /\ req[r].pc = "insert"
    /\ LET s == req[r]
           t == Append(sites, NewSite(s, nextId))
       IN  IF SitesConstraints(t)
           THEN /\ sites' = t
                /\ req' = [req EXCEPT ![r] =
                              Reply(Logged(s, "write"), 201, [data |-> t[Len(t)]])]
           ELSE /\ sites' = sites
                /\ req' = [req EXCEPT ![r] = InternalError(s)]
    /\ nextId' = nextId + 1
    /\ UNCHANGED <<users, projects, assets, files, now, tz, submissions, client>>


\* ------------------------------------------------------------------ ownership lookup
\* The rows of the handler's ownership query, each with the owner it selects:
\* the site itself, or the project / asset joined with its site.
OwnerRows(s) ==
    IF s.op \in SiteOps
    THEN {[owner |-> sites[i].user_id, row |-> sites[i]] :
             i \in {k \in DOMAIN sites : sites[k].site_id = s.site_id}}
    ELSE IF s.op \in ProjectOps
    THEN {[owner |-> sites[p[2]].user_id,
           row |-> [project |-> projects[p[1]], user_id |-> sites[p[2]].user_id]] :
             p \in {x \in (DOMAIN projects) \X (DOMAIN sites) :
                       /\ projects[x[1]].project_id = s.target
                       /\ projects[x[1]].site_id = s.site_id
                       /\ sites[x[2]].site_id = projects[x[1]].site_id}}
    ELSE {[owner |-> sites[p[2]].user_id,
           row |-> [asset |-> assets[p[1]], user_id |-> sites[p[2]].user_id]] :
             p \in {x \in (DOMAIN assets) \X (DOMAIN sites) :
                       /\ assets[x[1]].image_id = s.target
                       /\ assets[x[1]].site_id = s.site_id
                       /\ sites[x[2]].site_id = assets[x[1]].site_id}}

NotFoundCode(op) ==
    IF op \in SiteOps THEN "SITE_NOT_FOUND"
    ELSE IF op \in ProjectOps THEN "PROJECT_NOT_FOUND" ELSE "ASSET_NOT_FOUND"

\* (variant: the builder issues the UPDATE even when no field is left)
AfterCheck_NoEmptyTest(s) == [s EXCEPT !.pc = "write"]

\* After the ownership check: the dynamic update builder of the two partial
\* update handlers answers 400 when no field is left; the others go on to write.
AfterCheck(s) ==
    IF s.op = "updateSite" /\ update_fields(s.body, SiteProtected) = <<>>
    THEN Reply(s, 400, createErrorResponse("NO_UPDATE_FIELDS"))
    ELSE IF s.op = "updateProject" /\ update_fields(s.body, ProjectProtected) = <<>>
    THEN Reply(s, 400, createErrorResponse("NO_UPDATE_FIELDS"))
    ELSE [s EXCEPT !.pc = "write"]

\* (variant: the comparison of the owner with the caller is left out)
Decide_NoOwnerComparison(s, rows) ==
    IF rows = {}
    THEN Reply(s, 404, createErrorResponse(NotFoundCode(s.op)))
    ELSE LET first == CHOOSE x \in rows : TRUE
         IN  AfterCheck(Logged([s EXCEPT !.snap = first.row], "owner"))

\* (variant: the owner is compared before the row count is looked at, so the
\* owner of a row that does not exist is read and differs from every caller)
Decide_OwnerFirst(s, rows) ==
    IF rows = {}
    THEN Reply(Logged(s, "owner"), 403, createErrorResponse("ACCESS_DENIED"))
    ELSE LET first == CHOOSE x \in rows : TRUE
             read  == Logged([s EXCEPT !.snap = first.row], "owner")
         IN  IF first.owner /= s.user
             THEN Reply(read, 403, createErrorResponse("ACCESS_DENIED"))
             ELSE AfterCheck(read)

\* rows.length === 0 -> 404; rows[0].user_id !== req.user.id -> 403.
Decide(s, rows) ==
    IF rows = {}
    THEN Reply(s, 404, createErrorResponse(NotFoundCode(s.op)))
    ELSE LET first == CHOOSE x \in rows : TRUE
             read  == Logged([s EXCEPT !.snap = first.row], "owner")
         IN  IF first.owner /= s.user
             THEN Reply(read, 403, createErrorResponse("ACCESS_DENIED"))
             ELSE AfterCheck(read)

Lookup(r) ==
    /\ req[r].pc = "check"
    /\ req[r].op \in MutatingOps
    /\ req' = [req EXCEPT ![r] = Decide(Logged(req[r], "lookup"), OwnerRows(req[r]))]
    /\ UNCHANGED <<users, sites, projects, assets, files, now, nextId, tz, submissions, client>>

\* ------------------------------------------------------------------ site writes
\* UPDATE portfolio_sites SET assigns WHERE site_id = id
SitesAfter(id, assigns) ==
    [i \in DOMAIN sites |->
        IF sites[i].site_id = id THEN ApplySet(sites[i], assigns) ELSE sites[i]]

SiteUpdateOk(id, assigns) ==
    IF SetWellFormed(assigns, SiteColumns) THEN SitesConstraints(SitesAfter(id, assigns))
    ELSE FALSE

\* RETURNING *: res.json({data: result.rows[0]}); no row leaves data undefined.
FirstRow(t, hit) == IF hit = {} THEN <<>> ELSE [data |-> t[CHOOSE i \in hit : TRUE]]

SiteWrite(r, assigns) ==
    LET s   == req[r]
        hit == {i \in DOMAIN sites : sites[i].site_id = s.site_id}
    IN  IF SiteUpdateOk(s.site_id, assigns)
        THEN /\ sites' = SitesAfter(s.site_id, assigns)
             /\ req' = [req EXCEPT ![r] =
                          Reply(Logged(s, "write"), 200,
                                FirstRow(SitesAfter(s.site_id, assigns), hit))]
        ELSE /\ sites' = sites
             /\ req' = [req EXCEPT ![r] = InternalError(s)]

\* PUT /api/sites/:site_id
SiteAssignments(s) ==
    BoundAssignments(update_query(s.body, SiteProtected, s.site_id))

UpdateSite(r) ==
    /\ req[r].pc = "write" /\ req[r].op = "updateSite"
    /\ SiteWrite(r, SiteAssignments(req[r]))
    /\ UNCHANGED <<users, projects, assets, files, now, nextId, tz, submissions, client>>

\* (variant: publishing assigns the subdomain anew)
PublishAssignments_Regenerate ==
    << <<"published_at", now>>, <<"updated_at", now>>, <<"subdomain", NullSeq>> >>

\* PUT /api/sites/:site_id/publish
PublishAssignments == << <<"published_at", now>>, <<"updated_at", now>> >>

Publish(r) ==
    /\ req[r].pc = "write" /\ req[r].op = "publish"
    /\ SiteWrite(r, PublishAssignments)
    /\ UNCHANGED <<users, projects, assets, files, now, nextId, tz, submissions, client>>

\* PUT /api/sites/:site_id/hero
HeroAssignments(s) ==
    << <<"site_title", GetOr(s.body, "title", NULL)>>,
       <<"tagline", GetOr(s.body, "tagline", NULL)>>,
       <<"hero_image_url", GetOr(s.body, "hero_image_url", NULL)>>,
       <<"updated_at", now>> >>

Hero(r) ==
    /\ req[r].pc = "write" /\ req[r].op = "hero"
    /\ SiteWrite(r, HeroAssignments(req[r]))
    /\ UNCHANGED <<users, projects, assets, files, now, nextId, tz, submissions, client>>

\* PUT /api/sites/:site_id/seo
SeoAssignments(s) ==
    << <<"seo_title", GetOr(s.body, "seo_title", NULL)>>,
       <<"seo_description", GetOr(s.body, "seo_description", NULL)>>,
       <<"updated_at", now>> >>

Seo(r) ==
    /\ req[r].pc = "write" /\ req[r].op = "seo"
    /\ SiteWrite(r, SeoAssignments(req[r]))
    /\ UNCHANGED <<users, projects, assets, files, now, nextId, tz, submissions, client>>

\* PUT /api/sites/:site_id/theme
ThemeAssignments(s) ==
    << <<"template_id", GetOr(s.body, "template_id", NULL)>>,
       <<"primary_color", GetOr(s.body, "primary_color", NULL)>>,
       <<"font_family", GetOr(s.body, "font_family", NULL)>>,
       <<"is_dark_mode", GetOr(s.body, "is_dark_mode", NULL)>>,
       <<"updated_at", now>> >>

Theme(r) ==
    /\ req[r].pc = "write" /\ req[r].op = "theme"
    /\ SiteWrite(r, ThemeAssignments(req[r]))
    /\ UNCHANGED <<users, projects, assets, files, now, nextId, tz, submissions, client>>

\* PUT /api/sites/:site_id/about: the site row, then the user's avatar.
AboutAssignments(s) ==
    << <<"about_text", GetOr(s.body, "bio", NULL)>>, <<"updated_at", now>> >>

About(r) ==
    /\ req[r].pc = "write" /\ req[r].op = "about"
    /\ LET s   == req[r]
           hit == {i \in DOMAIN sites : sites[i].site_id = s.site_id}
           t   == SitesAfter(s.site_id, AboutAssignments(s))
       IN  IF SiteUpdateOk(s.site_id, AboutAssignments(s))
           THEN /\ sites' = t
                /\ req' = [req EXCEPT ![r] =
                      IF Missing(s.body, "avatar_url")
                      THEN Reply(Logged(s, "write"), 200, FirstRow(t, hit))
                      ELSE [Logged(s, "write") EXCEPT !.pc = "write2",
                                                      !.snap = FirstRow(t, hit)]]
           ELSE /\ sites' = sites
                /\ req' = [req EXCEPT ![r] = InternalError(s)]
    /\ UNCHANGED <<users, projects, assets, files, now, nextId, tz, submissions, client>>

\* UPDATE users SET avatar_url = $1 WHERE id = $2
AboutAvatar(r) ==
    /\ req[r].pc = "write2" /\ req[r].op = "about"
    /\ LET s == req[r]
       IN  /\ users' = [i \in DOMAIN users |->
                          IF users[i].id = s.user
                          THEN [users[i] EXCEPT !.avatar_url = Get(s.body, "avatar_url")]
                          ELSE users[i]]
           /\ req' = [req EXCEPT ![r] = Reply(Logged(s, "write"), 200, s.snap)]
    /\ UNCHANGED <<sites, projects, assets, files, now, nextId, tz, submissions, client>>

\* POST /api/sites/:site_id/export: generateStaticSiteExport writes the archive
\* into storage and resolves to its /storage/ URL ...
ExportGenerate(r) ==
    /\ req[r].pc = "write" /\ req[r].op = "export"
    /\ files' = files \cup {nextId}
    /\ nextId' = nextId + 1
    /\ req' = [req EXCEPT ![r] =
                  [Logged(req[r], "file") EXCEPT !.pc = "write2", !.file = nextId]]
    /\ UNCHANGED <<users, sites, projects, assets, now, tz, submissions, client>>

\* ... then the URL is stored in the site row.
ExportAssignments(s) == << <<"export_zip_url", s.file>>, <<"updated_at", now>> >>

\* generateStaticSiteExport fails.  An exception thrown inside its try block
\* makes it return null (500 EXPORT_GENERATION_FAILED, no file); an 'error'
\* event of the archive rejects its promise, which the handler's catch turns
\* into 500; an 'error' event of the output stream has no listener, so it is
\* thrown outside every handler, the process ends and the request is never
\* answered.
ExportFailures == {"null", "reject", "stream"}

ExportGenerateFails(r) ==
    /\ req[r].pc = "write" /\ req[r].op = "export"
    /\ \E kind \in ExportFailures :
          LET s == Logged(req[r], "genfail")
          IN  /\ req' = [req EXCEPT ![r] =
                    CASE kind = "null" ->
                            Reply(s, 500, createErrorResponse("EXPORT_GENERATION_FAILED"))
                      [] kind = "reject" -> InternalError(s)
                      [] OTHER -> [s EXCEPT !.pc = "aborted"]]
              /\ files' = IF kind = "null" THEN files ELSE files \cup {nextId}
              /\ nextId' = IF kind = "null" THEN nextId ELSE nextId + 1
    /\ UNCHANGED <<users, sites, projects, assets, now, tz, submissions, client>>

ExportStore(r) ==
    /\ req[r].pc = "write2" /\ req[r].op = "export"
    /\ LET s == req[r]
       IN  IF SiteUpdateOk(s.site_id, ExportAssignments(s))
           THEN /\ sites' = SitesAfter(s.site_id, ExportAssignments(s))
                /\ req' = [req EXCEPT ![r] =
                      Reply(Logged(s, "write"), 200,
                            [export_zip_url |-> s.file, export_path |-> s.file])]
           ELSE /\ sites' = sites
                /\ req' = [req EXCEPT ![r] = InternalError(s)]
    /\ UNCHANGED <<users, projects, assets, files, now, nextId, tz, submissions, client>>


\* ------------------------------------------------------------------ projects
NewProject(s, id) ==
    [project_id |-> id, site_id |-> s.site_id, title |-> Get(s.body, "title"),
     description |-> Get(s.body, "description"), date |-> DateIn(Get(s.body, "date")),
     tags |-> GetOr(s.body, "tags", <<>>), demo_url |-> GetOr(s.body, "demo_url", NULL),
     code_url |-> GetOr(s.body, "code_url", NULL),
     images |-> GetOr(s.body, "images", <<>>),
     order_index |-> GetOr(s.body, "order_index", 0),
     created_at |-> now, updated_at |-> now]

\* POST /api/sites/:site_id/projects
CreateProject(r) ==
    /\ req[r].pc = "write" /\ req[r].op = "createProject"
    /\ LET s == req[r]
           t == Append(projects, NewProject(s, nextId))
       IN  IF ProjectsConstraints(t)
           THEN /\ projects' = t
                /\ req' = [req EXCEPT ![r] =
                      Reply(Logged(s, "write"), 201, [data |-> ProjectJson(t[Len(t)])])]
           ELSE /\ projects' = projects
                /\ req' = [req EXCEPT ![r] = InternalError(s)]
    /\ nextId' = nextId + 1
    /\ UNCHANGED <<users, sites, assets, files, now, tz, submissions, client>>

\* SELECT * FROM portfolio_projects WHERE site_id = $1
\*   ORDER BY order_index ASC, created_at DESC
InOrder(a, b) ==
    \/ a.order_index < b.order_index
    \/ a.order_index = b.order_index /\ a.created_at >= b.created_at

ListProjects(r) ==
    /\ req[r].pc = "read" /\ req[r].op = "listProjects"
    /\ LET s   == req[r]
           hit == {i \in DOMAIN projects : projects[i].site_id = s.site_id}
           n   == Cardinality(hit)
       IN  \E f \in [1..n -> hit] :
              /\ \A i, j \in 1..n : i < j => f[i] /= f[j] /\ InOrder(projects[f[i]], projects[f[j]])
              /\ req' = [req EXCEPT ![r] =
                    Reply(s, 200, [data |-> [i \in 1..n |-> ProjectJson(projects[f[i]])],
                                   total |-> n])]
    /\ UNCHANGED <<users, sites, projects, assets, files, now, nextId, tz, submissions, client>>

\* UPDATE portfolio_projects SET assigns WHERE project_id = id
ProjectsAfter(id, assigns) ==
    [i \in DOMAIN projects |->
        IF projects[i].project_id = id THEN ApplySet(projects[i], assigns)
        ELSE projects[i]]

ProjectUpdateOk(id, assigns) ==
    IF SetWellFormed(assigns, ProjectColumns)
    THEN ProjectsConstraints(ProjectsAfter(id, assigns))
    ELSE FALSE

FirstProject(t, hit) ==
    IF hit = {} THEN <<>> ELSE [data |-> ProjectJson(t[CHOOSE i \in hit : TRUE])]

\* PUT /api/sites/:site_id/projects/:project_id
ProjectAssignments(s) ==
    BoundAssignments(update_query(s.body, ProjectProtected, s.target))

UpdateProject(r) ==
    /\ req[r].pc = "write" /\ req[r].op = "updateProject"
    /\ LET s   == req[r]
           hit == {i \in DOMAIN projects : projects[i].project_id = s.target}
           t   == ProjectsAfter(s.target, ProjectAssignments(s))
       IN  IF ProjectUpdateOk(s.target, ProjectAssignments(s))
           THEN /\ projects' = t
                /\ req' = [req EXCEPT ![r] =
                      Reply(Logged(s, "write"), 200, FirstProject(t, hit))]
           ELSE /\ projects' = projects
                /\ req' = [req EXCEPT ![r] = InternalError(s)]
    /\ UNCHANGED <<users, sites, assets, files, now, nextId, tz, submissions, client>>

\* DELETE /api/sites/:site_id/projects/:project_id: first the image assets ...
DeleteProjectAssets(r) ==
    /\ req[r].pc = "write" /\ req[r].op = "deleteProject"
    /\ assets' = SelectSeq(assets, LAMBDA a : a.project_id /= req[r].target)
    /\ req' = [req EXCEPT ![r] = [Logged(req[r], "write") EXCEPT !.pc = "write2"]]
    /\ UNCHANGED <<users, sites, projects, files, now, nextId, tz, submissions, client>>

\* The second DELETE fails (connection lost, statement timeout): the catch
\* answers 500 after the assets are gone.
DeleteProjectFails(r) ==
    /\ req[r].pc = "write2" /\ req[r].op = "deleteProject"
    /\ req' = [req EXCEPT ![r] = InternalError(Logged(req[r], "dberror"))]
    /\ UNCHANGED <<users, sites, projects, assets, files, now, nextId, tz, submissions,
                   client>>

\* ... then the project (image_assets.project_id is ON DELETE CASCADE).
DeleteProject(r) ==
    /\ req[r].pc = "write2" /\ req[r].op = "deleteProject"
    /\ projects' = SelectSeq(projects, LAMBDA p : p.project_id /= req[r].target)
    /\ assets' = SelectSeq(assets, LAMBDA a : a.project_id /= req[r].target)
    /\ req' = [req EXCEPT ![r] =
          Reply(Logged(req[r], "write"), 200,
                [data |-> ProjectJson(req[r].snap.project)])]
    /\ UNCHANGED <<users, sites, files, now, nextId, tz, submissions, client>>

\* ------------------------------------------------------------------ assets
\* (variant: image_assets.project_id declared without REFERENCES)
AssetsConstraints_NoProjectFk(t) ==
    /\ \A i, j \in DOMAIN t : i /= j => t[i].image_id /= t[j].image_id
    /\ \A i \in DOMAIN t :
          /\ t[i].site_id \in SiteIdsOf(sites) \cup {MissingId}
          /\ t[i].url /= MissingId

AssetsConstraints(t) ==
    /\ \A i, j \in DOMAIN t : i /= j => t[i].image_id /= t[j].image_id
    /\ \A i \in DOMAIN t :
          /\ t[i].site_id \in SiteIdsOf(sites) \cup {MissingId}
          /\ t[i].project_id \in {projects[j].project_id : j \in DOMAIN projects}
                                   \cup {MissingId}
          /\ t[i].url /= MissingId

NewAsset(s, id, project_id) ==
    [image_id |-> id, site_id |-> s.site_id, project_id |-> project_id, url |-> s.file,
     alt_text |-> GetOr(s.body, "alt_text", NULL), uploaded_at |-> now]

Created(s, row) == Reply(s, 201, [data |-> row])
Inserted(s, row) == [s EXCEPT !.pc = "write2", !.resp = [data |-> row]]

\* INSERT INTO image_assets ... RETURNING *: the site-asset handler answers
\* with the row, the project-image handler goes on to the images array.
InsertAsset(r, project_id) ==
    LET s == req[r]
        t == Append(assets, NewAsset(s, nextId, project_id))
    IN  /\ IF AssetsConstraints(t)
           THEN /\ assets' = t
                /\ req' = [req EXCEPT ![r] =
                              IF s.op = "createAsset"
                              THEN Created(Logged(s, "write"), t[Len(t)])
                              ELSE Inserted(Logged(s, "write"), t[Len(t)])]
           ELSE /\ assets' = assets
                /\ req' = [req EXCEPT ![r] = InternalError(s)]
        /\ nextId' = nextId + 1

\* POST /api/sites/:site_id/assets
CreateAsset(r) ==
    /\ req[r].pc = "write" /\ req[r].op = "createAsset"
    /\ InsertAsset(r, MissingId)
    /\ UNCHANGED <<users, sites, projects, files, now, tz, submissions, client>>

\* POST /api/sites/:site_id/projects/:project_id/images: the asset row ...
UploadImage(r) ==
    /\ req[r].pc = "write" /\ req[r].op = "uploadImage"
    /\ InsertAsset(r, req[r].target)
    /\ UNCHANGED <<users, sites, projects, files, now, tz, submissions, client>>

\* ... then the images array read by the ownership query, with the URL appended.
UploadImageAppend(r) ==
    /\ req[r].pc = "write2" /\ req[r].op = "uploadImage"
    /\ LET s == req[r]
           updated_images == Append(s.snap.project.images, s.file)
           assigns == << <<"images", updated_images>>, <<"updated_at", now>> >>
       IN  /\ projects' = ProjectsAfter(s.target, assigns)
           /\ req' = [req EXCEPT ![r] = Reply(Logged(s, "write"), 201, s.resp)]
    /\ UNCHANGED <<users, sites, assets, files, now, nextId, tz, submissions, client>>

\* PUT /api/sites/:site_id/assets/:asset_id
\*   SET url = COALESCE($1, url), alt_text = COALESCE($2, alt_text)
UpdateAsset(r) ==
    /\ req[r].pc = "write" /\ req[r].op = "updateAsset"
    /\ LET s   == req[r]
           hit == {i \in DOMAIN assets : assets[i].image_id = s.target}
           url == GetOr(s.body, "url", MissingId)
           alt == GetOr(s.body, "alt_text", NULL)
           t   == [i \in DOMAIN assets |->
                     IF i \in hit
                     THEN [assets[i] EXCEPT
                             !.url = IF url = MissingId THEN @ ELSE url,
                             !.alt_text = IF alt = NULL THEN @ ELSE alt]
                     ELSE assets[i]]
       IN  /\ assets' = t
           /\ req' = [req EXCEPT ![r] = Reply(Logged(s, "write"), 200, FirstRow(t, hit))]
    /\ UNCHANGED <<users, sites, projects, files, now, nextId, tz, submissions, client>>

\* DELETE /api/sites/:site_id/assets/:asset_id: unlink the file, delete the row.
DeleteAsset(r) ==
    /\ req[r].pc = "write" /\ req[r].op = "deleteAsset"
    /\ LET s == req[r]
           file_path == s.snap.asset.url
       IN  /\ files' = files \ {file_path}
           /\ assets' = SelectSeq(assets, LAMBDA a : a.image_id /= s.target)
           /\ req' = [req EXCEPT ![r] =
                 Reply(Logged(IF file_path \in files THEN Logged(s, "file") ELSE s, "write"),
                       200, [data |-> s.snap.asset])]
    /\ UNCHANGED <<users, sites, projects, now, nextId, tz, submissions, client>>

\* ------------------------------------------------------------------ registration
\* SELECT id FROM users WHERE username = $1 OR email = $2
RegisterCheck(r) ==
    /\ req[r].pc = "check" /\ req[r].op = "register"
    /\ LET s == req[r]
           existingUser == {i \in DOMAIN users :
                               \/ users[i].username = Get(s.body, "username")
                               \/ users[i].email = Get(s.body, "email")}
       IN  req' = [req EXCEPT ![r] =
               IF existingUser /= {}
               THEN Reply(s, 400, createErrorResponse("USER_ALREADY_EXISTS"))
               ELSE [s EXCEPT !.pc = "write"]]
    /\ UNCHANGED <<users, sites, projects, assets, files, now, nextId, tz, submissions, client>>

UsersConstraints(t) ==
    \A i, j \in DOMAIN t :
        i /= j => /\ t[i].id /= t[j].id
                  /\ t[i].username /= t[j].username
                  /\ t[i].email /= t[j].email

NewUser(s, id) ==
    [id |-> id, username |-> trim(Get(s.body, "username")),
     email |-> trim(toLowerCase(Get(s.body, "email"))),
     password_hash |-> Get(s.body, "password_hash"),
     full_name |-> GetOr(s.body, "full_name", NULL),
     avatar_url |-> GetOr(s.body, "avatar_url", NULL), is_active |-> TRUE,
     created_at |-> now]

\* INSERT INTO users ...; jwt.sign({user_id, email}): the token names the user.
RegisterInsert(r) ==
    /\ req[r].pc = "write" /\ req[r].op = "register"
    /\ LET s == req[r]
           t == Append(users, NewUser(s, nextId))
       IN  IF UsersConstraints(t)
           THEN /\ users' = t
                /\ req' = [req EXCEPT ![r] =
                      Reply(Logged(s, "write"), 201,
                            [data |-> [user |-> [id |-> nextId,
                                                 username |-> t[Len(t)].username,
                                                 email |-> t[Len(t)].email],
                                       token |-> nextId]])]
           ELSE /\ users' = users
                /\ req' = [req EXCEPT ![r] = InternalError(s)]
    /\ nextId' = nextId + 1
    /\ UNCHANGED <<sites, projects, assets, files, now, tz, submissions, client>>


\* ------------------------------------------------------------------ login
\* SELECT * FROM users WHERE username = $1 OR email = $1, with the identifier
\* lower-cased and trimmed; then the comparison of the stored password.
LoginQuery(r) ==
    /\ req[r].pc = "check" /\ req[r].op = "login"
    /\ LET s     == req[r]
           ident == trim(toLowerCase(login_identifier(s.body)))
           rows  == {i \in DOMAIN users :
                        users[i].username = ident \/ users[i].email = ident}
       IN  \E i \in (IF rows = {} THEN {0} ELSE rows) :
              req' = [req EXCEPT ![r] =
                 IF i = 0
                 THEN Reply(s, 400, createErrorResponse("INVALID_CREDENTIALS"))
                 ELSE IF Get(s.body, "password_hash") /= users[i].password_hash
                 THEN Reply(s, 400, createErrorResponse("INVALID_CREDENTIALS"))
                 ELSE Reply(s, 200, [data |-> [user |-> users[i],
                                               token |-> users[i].id]])]
    /\ UNCHANGED <<users, sites, projects, assets, files, now, nextId, tz, submissions, client>>

\* ------------------------------------------------------------------ reads
\* GET /api/users/:user_id (the id travels in site_id of the request)
GetUser(r) ==
    /\ req[r].pc = "read" /\ req[r].op = "getUser"
    /\ LET s   == req[r]
           hit == {i \in DOMAIN users : users[i].id = s.site_id /\ users[i].is_active}
       IN  req' = [req EXCEPT ![r] =
              IF hit = {} THEN Reply(s, 404, createErrorResponse("USER_NOT_FOUND"))
              ELSE LET u == users[CHOOSE i \in hit : TRUE]
                   IN  Reply(s, 200,
                             [data |-> [id |-> u.id, username |-> u.username,
                                        full_name |-> u.full_name,
                                        avatar_url |-> u.avatar_url,
                                        is_active |-> u.is_active,
                                        created_at |-> u.created_at]])]
    /\ UNCHANGED <<users, sites, projects, assets, files, now, nextId, tz, submissions, client>>

\* GET /api/sites/:site_id
GetSite(r) ==
    /\ req[r].pc = "read" /\ req[r].op = "getSite"
    /\ LET s   == req[r]
           hit == {i \in DOMAIN sites : sites[i].site_id = s.site_id}
       IN  req' = [req EXCEPT ![r] =
              IF hit = {} THEN Reply(s, 404, createErrorResponse("SITE_NOT_FOUND"))
              ELSE Reply(s, 200, FirstRow(sites, hit))]
    /\ UNCHANGED <<users, sites, projects, assets, files, now, nextId, tz, submissions, client>>

\* GET /api/sites: SELECT * FROM portfolio_sites WHERE user_id = $1
\*   ORDER BY created_at DESC
ListSites(r) ==
    /\ req[r].pc = "read" /\ req[r].op = "listSites"
    /\ LET s   == req[r]
           hit == {i \in DOMAIN sites : sites[i].user_id = s.user}
           n   == Cardinality(hit)
       IN  \E f \in [1..n -> hit] :
              /\ \A i, j \in 1..n :
                    i < j => f[i] /= f[j] /\ sites[f[i]].created_at >= sites[f[j]].created_at
              /\ req' = [req EXCEPT ![r] =
                    Reply(s, 200, [data |-> [i \in 1..n |-> sites[f[i]]], total |-> n])]
    /\ UNCHANGED <<users, sites, projects, assets, files, now, nextId, tz, submissions, client>>

\* ------------------------------------------------------------------ contact
\* INSERT INTO contact_submissions ... RETURNING *
ContactInsert(r) ==
    /\ req[r].pc = "write" /\ req[r].op = "contact"
    /\ LET s   == req[r]
           row == [submission_id |-> nextId,
                   site_id |-> GetOr(s.body, "site_id", MissingId),
                   name |-> IF Missing(s.body, "name") THEN NULL ELSE Get(s.body, "name"),
                   email |-> Get(s.body, "email"), message |-> Get(s.body, "message"),
                   created_at |-> now]
       IN  IF row.site_id \in SiteIdsOf(sites) \cup {MissingId}
           THEN /\ submissions' = Append(submissions, row)
                /\ req' = [req EXCEPT ![r] =
                      Reply(Logged(s, "write"), 201, [data |-> row])]
           ELSE /\ submissions' = submissions
                /\ req' = [req EXCEPT ![r] = InternalError(s)]
    /\ nextId' = nextId + 1
    /\ UNCHANGED <<users, sites, projects, assets, files, now, tz, client>>

\* ------------------------------------------------------------------ database failures
\* The user lookup of authenticateToken throws: its try block holds both
\* jwt.verify and the query, and its catch answers 403 AUTH_TOKEN_INVALID.
AuthQueryFails(r, q) ==
    /\ req[r].pc = "idle"
    /\ q.op \notin PublicOps /\ q.token \notin {NoToken, BadToken}
    /\ req' = [req EXCEPT ![r] =
          Reply(Logged([IdleReq EXCEPT !.op = q.op, !.token = q.token,
                                       !.site_id = q.site_id, !.target = q.target,
                                       !.body = q.body], "dberror"),
                403, createErrorResponse("AUTH_TOKEN_INVALID"))]
    /\ UNCHANGED <<users, sites, projects, assets, files, now, nextId, tz, submissions, client>>

\* The first query of a handler throws: the handler's catch answers 500.
QueryFails(r) ==
    /\ req[r].pc \in {"check", "read"}
    /\ req' = [req EXCEPT ![r] = InternalError(Logged(req[r], "dberror"))]
    /\ UNCHANGED <<users, sites, projects, assets, files, now, nextId, tz, submissions, client>>

\* ------------------------------------------------------------------ client store
\* The keys of the store's Site shape.
StoreSiteKeys ==
    {"site_id", "user_id", "site_title", "tagline", "hero_image_url", "about_text",
     "template_id", "primary_color", "font_family", "is_dark_mode", "seo_title",
     "seo_description", "subdomain", "published_at", "export_zip_url"}

\* portfolio_site_state before any site is loaded.
EmptySite ==
    [k \in StoreSiteKeys |->
        CASE k \in {"site_id", "user_id", "export_zip_url"} -> MissingId
          [] k = "site_title" -> ""
          [] k = "is_dark_mode" -> FALSE
          [] k = "subdomain" -> NullSeq
          [] k = "published_at" -> NullTs
          [] OTHER -> NULL]

\* UV_HeroEditor: setLocalTitle(current_site_title || ''),
\* setLocalTagline(current_tagline ?? null),
\* setLocalHeroImageUrl(current_hero_image_url ?? null).
HeroLocals(site) ==
    [title |-> IF site.site_title = NULL THEN "" ELSE site.site_title,
     tagline |-> site.tagline,
     image |-> site.hero_image_url]

\* authentication_state: current_user is <<>> for null and <<user>> for an
\* object; auth_token is NoToken for null.
LoggedOut ==
    [current_user |-> <<>>, auth_token |-> NoToken, is_authenticated |-> FALSE,
     error_message |-> FALSE]

\* The query ['help_docs'] of UV_HelpDocs.
QueryInit == [status |-> "idle", failureCount |-> 0, attempts |-> 0]

ClientInit ==
    [site  |-> EmptySite,
     hero  |-> HeroLocals(EmptySite),
     timer |-> FALSE,
     error |-> FALSE,
     auth  |-> LoggedOut,
     query |-> QueryInit,
     toasts |-> <<>>,
     toastsAdded |-> 0]

\* set_site: (site) => set((state) => ({ portfolio_site_state: site }))
set_site(c, site) == [c EXCEPT !.site = site]

\* The effect that re-initialises the local fields when site_id, site_title,
\* tagline or hero_image_url of the store change, and the bridge effect that
\* restarts the preview timer when a local field changed.
HeroDeps == {"site_id", "site_title", "tagline", "hero_image_url"}

HeroEffects(old, c) ==
    LET changed == \E k \in HeroDeps : c.site[k] /= old.site[k]
        c1 == IF changed THEN [c EXCEPT !.hero = HeroLocals(c.site)] ELSE c
    IN  IF c1.hero /= old.hero \/ c1.site.site_id /= old.site.site_id
        THEN [c1 EXCEPT !.timer = (c1.site.site_id /= MissingId)]
        ELSE c1

\* handleTitleChange, handleTaglineChange and the image field: one local
\* field gets a new value.
HeroEdit(field, value) ==
    /\ client.hero[field] /= value
    /\ client' = HeroEffects(client, [client EXCEPT !.hero[field] = value])
    /\ UNCHANGED <<users, sites, projects, assets, files, req, now, nextId, tz, submissions>>

\* The preview timer fires: set_site({site_id, site_title, tagline,
\* hero_image_url}).
HeroPreview ==
    /\ client.timer
    /\ client' =
          HeroEffects([client EXCEPT !.timer = FALSE],
                      set_site([client EXCEPT !.timer = FALSE],
                               [site_id |-> client.site.site_id,
                                site_title |-> client.hero.title,
                                tagline |-> client.hero.tagline,
                                hero_image_url |-> client.hero.image]))
    /\ UNCHANGED <<users, sites, projects, assets, files, req, now, nextId, tz, submissions>>

\* handleSubmitHero: refused locally without site or title, else
\* PUT /api/sites/:site_id/hero with {title, tagline, hero_image_url}.
HeroPayload(c) ==
    << <<"title", c.hero.title>>, <<"tagline", c.hero.tagline>>,
       <<"hero_image_url", c.hero.image>> >>

HeroSubmit(r, t) ==
    /\ req[r].pc = "idle"
    /\ IF client.site.site_id = MissingId \/ client.hero.title \in {"", " "}
       THEN /\ client' = [client EXCEPT !.error = TRUE]
            /\ UNCHANGED <<users, sites, projects, assets, files, req, now, nextId, tz,
                           submissions>>
       ELSE Start(r, [op |-> "hero", token |-> t, site_id |-> client.site.site_id,
                      target |-> MissingId, body |-> HeroPayload(client), file |-> FALSE])

\* mapHeroUpdateResponse: the keys of the store's Site shape.
mapHeroUpdateResponse(site) == [k \in StoreSiteKeys |-> site[k]]

\* The response of the PUT arrives: set_site(mapHeroUpdateResponse(data)), or
\* setLocalError.
HeroResponse(r) ==
    /\ req[r].pc = "done" /\ req[r].op = "hero"
    /\ client' =
          IF req[r].status = 200
          THEN HeroEffects(client,
                           set_site(client, mapHeroUpdateResponse(req[r].resp.data)))
          ELSE [client EXCEPT !.error = TRUE]
    /\ req' = [req EXCEPT ![r] = IdleReq]
    /\ UNCHANGED <<users, sites, projects, assets, files, now, nextId, tz, submissions>>

\* ------------------------------------------------------------------ client: help docs
QueryRetry == 1   \* retry: 1

HelpInFlight == \E r \in DOMAIN req : req[r].op = "helpDocs"

\* UV_HelpDocs mounts: useQuery starts to load.
HelpMount ==
    /\ client.query.status = "idle"
    /\ client' = [client EXCEPT !.query.status = "loading"]
    /\ UNCHANGED <<users, sites, projects, assets, files, req, now, nextId, tz, submissions>>

\* fetchHelpDocs: GET /api/help/docs.
HelpFetch(r) ==
    /\ client.query.status = "loading" /\ ~HelpInFlight
    /\ req[r].pc = "idle"
    /\ Start(r, [op |-> "helpDocs", token |-> NoToken, site_id |-> MissingId,
                 target |-> MissingId, body |-> <<>>, file |-> FALSE])

\* The attempt ends: the response arrives, or axios rejects (no connection,
\* timeout).  A failure is retried until failureCount exceeds retry.
HelpSettled(r) ==
    /\ req[r].pc = "done" /\ req[r].op = "helpDocs"
    /\ \E arrived \in BOOLEAN :
          LET q == [client.query EXCEPT !.attempts = @ + 1]
          IN  client' = [client EXCEPT !.query =
                 IF arrived /\ req[r].status = 200
                 THEN [q EXCEPT !.status = "success"]
                 ELSE IF q.failureCount < QueryRetry
                 THEN [q EXCEPT !.failureCount = @ + 1]
                 ELSE [q EXCEPT !.failureCount = @ + 1, !.status = "error"]]
    /\ req' = [req EXCEPT ![r] = IdleReq]
    /\ UNCHANGED <<users, sites, projects, assets, files, now, nextId, tz, submissions>>

\* ------------------------------------------------------------------ client: authentication
\* The success branch of login_user and register_user.
AuthAccepted(data) ==
    LET user  == IF "user" \in DOMAIN data THEN <<data.user>> ELSE <<>>
        token == IF "token" \in DOMAIN data THEN data.token ELSE NoToken
    IN  [current_user |-> user, auth_token |-> token,
         is_authenticated |-> (user /= <<>> /\ token /= NoToken),
         error_message |-> FALSE]

\* (variant: a catch branch that keeps the session and only records the error)
AuthRejected_KeepSession(a) == [a EXCEPT !.error_message = TRUE]

\* The catch branch of login_user and register_user.
AuthRejected(a) ==
    [current_user |-> <<>>, auth_token |-> NoToken, is_authenticated |-> FALSE,
     error_message |-> TRUE]

\* login_user(email, password): POST /api/auth/login with {email, password}.
login_user(r, email, password) ==
    /\ req[r].pc = "idle"
    /\ Start(r, [op |-> "login", token |-> NoToken, site_id |-> MissingId,
                 target |-> MissingId,
                 body |-> << <<"email", email>>, <<"password", password>> >>,
                 file |-> FALSE])

\* register_user(full_name, email, password): POST /api/auth/register.
register_user(r, full_name, email, password) ==
    /\ req[r].pc = "idle"
    /\ Start(r, [op |-> "register", token |-> NoToken, site_id |-> MissingId,
                 target |-> MissingId,
                 body |-> << <<"username", full_name>>, <<"email", email>>,
                             <<"password_hash", password>>, <<"full_name", full_name>>,
                             <<"avatar_url", "">>, <<"is_active", TRUE>> >>,
                 file |-> FALSE])

\* The awaited axios.post of login_user / register_user settles.
AuthSettled(r) ==
    /\ req[r].pc = "done" /\ req[r].op \in {"login", "register"}
    /\ client' = [client EXCEPT !.auth =
          IF req[r].status \in {200, 201}
          THEN AuthAccepted(IF "data" \in DOMAIN req[r].resp THEN req[r].resp.data
                            ELSE req[r].resp)
          ELSE AuthRejected(client.auth)]
    /\ req' = [req EXCEPT ![r] = IdleReq]
    /\ UNCHANGED <<users, sites, projects, assets, files, now, nextId, tz, submissions>>

logout_user ==
    /\ client' = [client EXCEPT !.auth = LoggedOut]
    /\ UNCHANGED <<users, sites, projects, assets, files, req, now, nextId, tz, submissions>>

initialize_auth ==
    /\ client' = [client EXCEPT !.auth =
          IF @.auth_token /= NoToken /\ @.current_user /= <<>>
          THEN [@ EXCEPT !.is_authenticated = TRUE]
          ELSE IF @.auth_token /= NoToken
          THEN [current_user |-> <<>>, auth_token |-> @.auth_token,
                is_authenticated |-> FALSE, error_message |-> FALSE]
          ELSE LoggedOut]
    /\ UNCHANGED <<users, sites, projects, assets, files, req, now, nextId, tz, submissions>>

\* update_user_profile(userData): {...(current_user || {}), ...userData}
update_user_profile(userData) ==
    /\ client' = [client EXCEPT !.auth.current_user =
          LET cur == IF @ = <<>> THEN [k \in {} |-> NULL] ELSE @[1]
          IN  << [k \in DOMAIN cur \cup DOMAIN userData |->
                     IF k \in DOMAIN userData THEN userData[k] ELSE cur[k]] >>]
    /\ UNCHANGED <<users, sites, projects, assets, files, req, now, nextId, tz, submissions>>

\* ------------------------------------------------------------------ client: notifications
\* GV_Notifications.  A toast is [id, duration, age, timer]: age is the time
\* since addToast, timer the time left on its window.setTimeout.

\* The effect on [toasts]: its cleanup clears every timer and empties
\* timersRef, then the effect sets a timer of t.duration for every toast that
\* has none, that is for every toast of the queue.
ToastTimersEffect(ts) == [i \in DOMAIN ts |-> [ts[i] EXCEPT !.timer = ts[i].duration]]

ToastsWithout(ts, id) == SelectSeq(ts, LAMBDA t : t.id /= id)

\* addToast(payload)
addToast(duration) ==
    /\ client.toastsAdded < MaxToasts
    /\ client' = [client EXCEPT
          !.toastsAdded = @ + 1,
          !.toasts = ToastTimersEffect(
                        Append(@, [id |-> client.toastsAdded + 1, duration |-> duration,
                                   age |-> 0, timer |-> duration]))]
    /\ UNCHANGED <<users, sites, projects, assets, files, req, now, nextId, tz, submissions>>

\* removeToast(id), called by the timer of the toast.
ToastTimeout(i) ==
    /\ i \in DOMAIN client.toasts
    /\ client.toasts[i].timer = 0
    /\ client' = [client EXCEPT
          !.toasts = ToastTimersEffect(ToastsWithout(@, client.toasts[i].id))]
    /\ UNCHANGED <<users, sites, projects, assets, files, req, now, nextId, tz, submissions>>

\* removeToast(id), called by the close button of the toast.
ToastClose(i) ==
    /\ i \in DOMAIN client.toasts
    /\ client' = [client EXCEPT
          !.toasts = ToastTimersEffect(ToastsWithout(@, client.toasts[i].id))]
    /\ UNCHANGED <<users, sites, projects, assets, files, req, now, nextId, tz, submissions>>

\* One unit of time passes; a timer that is due fires before time moves on.
ToastTick ==
    /\ client.toasts /= <<>>
    /\ \A i \in DOMAIN client.toasts : client.toasts[i].timer > 0
    /\ client' = [client EXCEPT
          !.toasts = [i \in DOMAIN @ |-> [@[i] EXCEPT !.age = @ + 1, !.timer = @ - 1]]]
    /\ UNCHANGED <<users, sites, projects, assets, files, req, now, nextId, tz, submissions>>

\* ------------------------------------------------------------------ seed rows
TzOffsets == {-5, 0, 1}

SeedUser(id, username, email) ==
    [id |-> id, username |-> username, email |-> email,
     password_hash |-> <<"s", "e", "c", "r", "e", "t">>, full_name |-> NULL,
     avatar_url |-> "V", is_active |-> TRUE, created_at |-> 1]

Alice  == SeedUser(1, <<"A", "l">>, <<"a", "@">>)
Alice2 == SeedUser(2, <<"a", "l", "!">>, <<"b", "@">>)

SeedSite(id, user_id, subdomain) ==
    [site_id |-> id, user_id |-> user_id, site_title |-> "T", tagline |-> NULL,
     hero_image_url |-> NULL, about_text |-> NULL, template_id |-> NULL,
     primary_color |-> NULL, font_family |-> NULL, is_dark_mode |-> FALSE,
     seo_title |-> NULL, seo_description |-> NULL, subdomain |-> subdomain,
     published_at |-> NullTs, export_zip_url |-> MissingId, created_at |-> 1,
     updated_at |-> 1]

SeedProject(id, site_id) ==
    [project_id |-> id, site_id |-> site_id, title |-> "P", description |-> "D",
     date |-> 5, tags |-> <<>>, demo_url |-> NULL, code_url |-> NULL, images |-> <<>>,
     order_index |-> 0, created_at |-> 1, updated_at |-> 1]

SeedAsset(id, site_id, url) ==
    [image_id |-> id, site_id |-> site_id, project_id |-> MissingId, url |-> url,
     alt_text |-> "x", uploaded_at |-> 1]

Request(op, token, site_id, target, body, file) ==
    [op |-> op, token |-> token, site_id |-> site_id, target |-> target, body |-> body,
     file |-> file]

Slots == 1..MaxReq

InitCommon ==
    /\ req = [r \in Slots |-> IdleReq]
    /\ submissions = <<>>
    /\ client = ClientInit
    /\ now = 1
    /\ nextId = FirstId


\* ------------------------------------------------------------------ Spec
\* Every mutating endpoint of a site, its project and its asset, called by the
\* owner and by another user, for rows that exist and for ids that match no
\* row.  One request is served at a time.
Bodies(op) ==
    CASE op = "updateSite" ->
            {<< <<"site_id", 9>>, <<"site_title", "T">> >>,
             << <<"site_id", 9>> >>,
             << <<"SITE_ID", 9>> >>}
      [] op = "updateProject" ->
            {<< <<"id", 9>>, <<"project_id", 9>>, <<"site_id", 9>>, <<"title", "P">> >>,
             << <<"PROJECT_ID", 9>> >>}
      [] op = "hero" -> {<< <<"title", "T">> >>}
      [] op = "about" -> {<< <<"avatar_url", "V">> >>}
      [] op = "theme" -> {<< <<"is_dark_mode", FALSE>> >>}
      [] op = "createProject" ->
            {<< <<"title", "T">>, <<"description", "D">>, <<"date", <<"date", 5>>>> >>,
             << <<"title", "T">> >>}
      [] op = "updateAsset" -> {<< <<"alt_text", "x">> >>}
      [] OTHER -> {<<>>}

Targets(op) ==
    IF op \in ProjectOps THEN {projects[i].project_id : i \in DOMAIN projects} \cup {MissingId}
    ELSE IF op \in AssetOps THEN {assets[i].image_id : i \in DOMAIN assets} \cup {MissingId}
    ELSE {MissingId}

MutationRequests ==
    UNION {{Request(op, x[1], x[2], x[3], x[4], x[5]) :
               x \in UserIds \X (SiteIdsOf(sites) \cup {MissingId}) \X Targets(op)
                     \X Bodies(op) \X (IF op \in UploadOps THEN BOOLEAN ELSE {FALSE})} :
           op \in MutatingOps}

Init ==
    /\ InitCommon
    /\ users = <<Alice, Alice2>>
    /\ sites = <<SeedSite(3, 1, <<"a", "l">>)>>
    /\ projects = <<SeedProject(5, 3)>>
    /\ assets = <<[SeedAsset(6, 3, 7) EXCEPT !.project_id = 5]>>
    /\ files = {7}
    /\ tz = 0

Next ==
    \E r \in Slots :
        \/ r = 1 /\ req[r].pc = "idle" /\ \E q \in MutationRequests : Start(r, q)
        \/ Lookup(r)
        \/ UpdateSite(r)
        \/ Publish(r)
        \/ ExportGenerate(r)
        \/ ExportStore(r)
        \/ Hero(r)
        \/ About(r)
        \/ AboutAvatar(r)
        \/ Seo(r)
        \/ Theme(r)
        \/ CreateProject(r)
        \/ UpdateProject(r)
        \/ DeleteProjectAssets(r)
        \/ DeleteProject(r)
        \/ UploadImage(r)
        \/ UploadImageAppend(r)
        \/ CreateAsset(r)
        \/ UpdateAsset(r)
        \/ DeleteAsset(r)
        \/ Finish(r)

Spec == Init /\ [][Next]_vars

\* The owners of the row a request addresses: the site of the path, and for a
\* project or asset route only when that project or asset is on that site.
Owners(s) ==
    {sites[i].user_id : i \in {k \in DOMAIN sites :
        /\ sites[k].site_id = s.site_id
        /\ s.op \in ProjectOps =>
              \E j \in DOMAIN projects :
                  projects[j].project_id = s.target /\ projects[j].site_id = s.site_id
        /\ s.op \in AssetOps =>
              \E j \in DOMAIN assets :
                  assets[j].image_id = s.target /\ assets[j].site_id = s.site_id}}

Authenticated(s) == s.op \in MutatingOps /\ s.user /= MissingId

\* The caller is not the owner of the addressed row / no row is addressed.
Foreign(s) == Authenticated(s) /\ Owners(s) /= {} /\ s.user \notin Owners(s)
Absent(s)  == Authenticated(s) /\ Owners(s) = {}

\* The create endpoints refuse these inputs before they look anything up.
RejectedInput(s) ==
    \/ /\ s.op = "createProject"
       /\ \/ Missing(s.body, "title") \/ Missing(s.body, "description")
          \/ MissingSeq(s.body, "date")
    \/ s.op \in UploadOps /\ s.file = MissingId

\* A step in which the handler of slot r is entered: the request passed the
\* middleware and ran up to its first awaited call (or its first reply).
Entered(r) == req[r].pc = "idle" /\ req'[r].pc /= "idle"

\* A step in which the handler of slot r gets the result of its ownership lookup.
LookedUp(r) == req[r].pc = "check" /\ req'[r] /= req[r]

Rows == <<users, sites, projects, assets>>

C3_IdColumnsKept ==
    \A r \in Slots :
        (req[r].pc = "done" /\ req[r].status = 200)
        => /\ req[r].op = "updateSite" => req[r].resp.data.site_id = req[r].site_id
           /\ req[r].op = "updateProject" =>
                 /\ req[r].resp.data.project_id = req[r].target
                 /\ req[r].resp.data.site_id = req[r].site_id

\* C4: a completed mutation handler has made one ownership lookup, every
\* write of a row or of a stored file came after it, and a handler that
\* answered 404 or 403 wrote nothing.  (A request refused with 400 before the
\* lookup has made none.)
C4_LookupThenWrite ==
    \A r \in Slots :
        (Authenticated(req[r]) /\ req[r].pc = "done")
        => LET log     == req[r].log
               lookups == {i \in DOMAIN log : log[i] = "lookup"}
               writes  == {i \in DOMAIN log : log[i] \in {"write", "file"}}
           IN  /\ Cardinality(lookups) <= 1
               /\ req[r].status \in {200, 201, 403, 404} => Cardinality(lookups) = 1
               /\ \A w \in writes : \E l \in lookups : l < w
               /\ req[r].status \in {403, 404} => writes = {}

\* ------------------------------------------------------------------ SpecRace
\* Concurrent creation and update of sites by two users whose usernames have
\* the same base token; one site holds that token already.
RaceRequests ==
    {Request("createSite", t, MissingId, MissingId, << <<"site_title", "T">> >>, FALSE) :
        t \in UserIds}
    \cup
    {Request("updateSite", sites[i].user_id, sites[i].site_id, MissingId,
             << <<"subdomain", <<"a", "l", "1">>>> >>, FALSE) : i \in DOMAIN sites}

InitRace ==
    /\ InitCommon
    /\ users = <<Alice, Alice2>>
    /\ sites = <<SeedSite(3, 1, <<"a", "l">>)>>
    /\ projects = <<>> /\ assets = <<>> /\ files = {}
    /\ tz = 0

NextRace ==
    \E r \in Slots :
        \/ req[r].pc = "idle" /\ \E q \in RaceRequests : Start(r, q)
        \/ Probe(r)
        \/ InsertSite(r)
        \/ Lookup(r)
        \/ UpdateSite(r)
        \/ Finish(r)

SpecRace == InitRace /\ [][NextRace]_vars

\* C5: in every reachable state, also under interleaved creations and updates,
\* no two portfolio sites hold the same non-null subdomain.
C5_SubdomainsDistinct ==
    \A i, j \in DOMAIN sites :
        (i /= j /\ sites[i].subdomain /= NullSeq) => sites[i].subdomain /= sites[j].subdomain

\* Two creations raced for one token, and an update asked for a token in use.
C5_Witness ==
    /\ \E r \in Slots : req[r].op = "createSite" /\ req[r].status = 500
    /\ \E r \in Slots : req[r].op = "updateSite" /\ req[r].status = 500
    /\ Len(sites) >= 2

\* C7: two creations whose usernames have the same base token and that
\* interleave between probe and insert both succeed, with distinct subdomains.
C7_BothCreationsSucceed ==
    \A r1, r2 \in Slots :
        (/\ r1 /= r2
         /\ req[r1].op = "createSite" /\ req[r1].pc = "done"
         /\ req[r2].op = "createSite" /\ req[r2].pc = "done")
        => /\ req[r1].status = 201 /\ req[r2].status = 201
           /\ req[r1].resp.data.subdomain /= req[r2].resp.data.subdomain


\* ------------------------------------------------------------------ SpecCreate
\* Requests served one after the other: registration and site creation.  A
\* slot keeps its response until the client has read it.
Quiet == \A r \in Slots : req[r].pc \in {"idle", "done"}

RegisterBody(username, email) ==
    << <<"username", username>>, <<"email", email>>,
       <<"password_hash", <<"s", "e", "c", "r", "e", "t", "1">>>> >>

CreateRequests ==
    {Request("register", NoToken, MissingId, MissingId, b, FALSE) :
        b \in {RegisterBody(<<"B", "o", " ">>, <<"C", "@">>),
               RegisterBody(<<"a", "l", "1">>, <<"d", "@">>)}}
    \cup
    {Request("createSite", t, MissingId, MissingId,
             << <<"user_id", 1>>, <<"site_title", "T">> >>, FALSE) : t \in UserIds}

InitCreate ==
    /\ InitCommon
    /\ users = <<Alice, Alice2>>
    /\ sites = <<SeedSite(3, 1, <<"a", "l">>)>>
    /\ projects = <<>> /\ assets = <<>> /\ files = {}
    /\ tz = 0

NextCreate ==
    \E r \in Slots :
        \/ Quiet /\ req[r].pc = "idle" /\ \E q \in CreateRequests : Start(r, q)
        \/ RegisterCheck(r)
        \/ RegisterInsert(r)
        \/ Probe(r)
        \/ InsertSite(r)
        \/ Finish(r)

SpecCreate == InitCreate /\ [][NextCreate]_vars

\* ------------------------------------------------------------------ SpecPublish
\* Two seeded sites; their owners publish them, one request after the other,
\* while the clock advances.
PublishRequests ==
    {Request("publish", sites[i].user_id, sites[i].site_id, MissingId, <<>>, FALSE) :
        i \in DOMAIN sites}

InitPublish ==
    /\ InitCommon
    /\ users = <<Alice, Alice2>>
    /\ sites = <<SeedSite(3, 1, <<"a", "l">>), SeedSite(4, 2, <<"a", "l", "1">>)>>
    /\ projects = <<>> /\ assets = <<>> /\ files = {}
    /\ tz = 0

NextPublish ==
    \/ \E r \in Slots :
          \/ Quiet /\ req[r].pc = "idle" /\ \E q \in PublishRequests : Start(r, q)
          \/ Lookup(r)
          \/ Publish(r)
          \/ Finish(r)
    \/ Tick

SpecPublish == InitPublish /\ [][NextPublish]_vars

\* ------------------------------------------------------------------ SpecProject
\* One seeded site without projects; its owner creates projects and the
\* project list is fetched, one request after the other.
ProjectBody ==
    << <<"title", "T">>, <<"description", "D">>, <<"date", <<"date", 5>>>>,
       <<"tags", <<"x">>>>, <<"images", <<>>>> >>

ProjectRequests ==
    {Request("createProject", sites[i].user_id, sites[i].site_id, MissingId,
             ProjectBody, FALSE) : i \in DOMAIN sites}
    \cup
    {Request("listProjects", NoToken, sites[i].site_id, MissingId, <<>>, FALSE) :
        i \in DOMAIN sites}

InitProject ==
    /\ InitCommon
    /\ users = <<Alice, Alice2>>
    /\ sites = <<SeedSite(3, 1, <<"a", "l">>)>>
    /\ projects = <<>> /\ assets = <<>> /\ files = {}
    /\ tz \in TzOffsets

NextProject ==
    \/ \E r \in Slots :
          \/ Quiet /\ req[r].pc = "idle" /\ \E q \in ProjectRequests : Start(r, q)
          \/ Lookup(r)
          \/ CreateProject(r)
          \/ ListProjects(r)
          \/ Finish(r)
    \/ Tick

SpecProject == InitProject /\ [][NextProject]_vars

\* The base token as the specification words it: the username lower-cased,
\* with every character outside a-z and 0-9 removed.
RECURSIVE BaseToken(_)
BaseToken(u) ==
    IF u = <<>> THEN <<>>
    ELSE LET c == IF Head(u) = "A" THEN "a" ELSE IF Head(u) = "B" THEN "b" ELSE Head(u)
         IN  (IF c \in {"a", "b", "l", "o"} \cup SeqToSet(DigitChar) THEN <<c>> ELSE <<>>)
             \o BaseToken(Tail(u))

Suffixed(base, k) == base \o numberToString(k)

\* The token the generator is to return against the subdomains held.
ExpectedSubdomain(username, held) ==
    LET base == BaseToken(username)
    IN  IF base \notin held THEN base
        ELSE Suffixed(base, CHOOSE k \in 1..(Cardinality(held) + 1) :
                               /\ Suffixed(base, k) \notin held
                               /\ \A j \in 1..(k - 1) : Suffixed(base, j) \in held)

\* C6: generateUniqueSubdomain returns the base token when no site holds it,
\* and otherwise the base token followed by the smallest k >= 1 such that no
\* site holds base+k.
C6_GeneratedSubdomain ==
    \A r \in Slots :
        req[r].pc = "insert" =>
            req[r].subdomain =
                ExpectedSubdomain(req[r].username, {sites[i].subdomain : i \in DOMAIN sites})

\* 'Al' and 'al!' share the base 'al'; with 'al' taken the next creations
\* received 'al1' and then 'al2'.
C6_Witness ==
    /\ Len(sites) = 3
    /\ sites[1].user_id = 1 /\ sites[1].subdomain = <<"a", "l">>
    /\ sites[2].user_id = 2 /\ sites[2].subdomain = <<"a", "l", "1">>
    /\ sites[3].subdomain = <<"a", "l", "2">>

\* C8: a publish call by the owner sets published_at (and updated_at) to the
\* time of that call and changes no other column of any site, so after two
\* calls published_at is the second call's timestamp and the subdomain is
\* the one assigned at creation.
C8_PublishFrame ==
    [][\A r \in Slots :
          (/\ req[r].op = "publish" /\ req[r].pc = "write"
           /\ req'[r].pc = "done" /\ req'[r].status = 200)
          => /\ sites' = [i \in DOMAIN sites |->
                            IF sites[i].site_id = req[r].site_id
                            THEN [sites[i] EXCEPT !.published_at = now, !.updated_at = now]
                            ELSE sites[i]]
             /\ req'[r].resp.data.published_at = now]_vars

\* Two publish calls on one site have been answered, the second later than
\* the first, and the row carries the second call's timestamp.
C8_Witness ==
    \E r1, r2 \in Slots : \E i \in DOMAIN sites :
        /\ req[r1].op = "publish" /\ req[r1].status = 200
        /\ req[r2].op = "publish" /\ req[r2].status = 200
        /\ req[r1].site_id = sites[i].site_id /\ req[r2].site_id = sites[i].site_id
        /\ req[r1].resp.data.published_at < req[r2].resp.data.published_at
        /\ sites[i].published_at = req[r2].resp.data.published_at
        /\ sites[i].subdomain = req[r1].resp.data.subdomain
        /\ sites[i].subdomain /= NullSeq

\* C9: a project created on a site that has none and then listed comes back
\* as the single project of the list, with title, description, date, tags and
\* images equal to the input.
C9_RoundTrip ==
    \A r1, r2 \in Slots :
        (/\ req[r1].op = "createProject" /\ req[r1].status = 201
         /\ req[r2].op = "listProjects" /\ req[r2].status = 200
         /\ req[r1].site_id = req[r2].site_id
         /\ req[r2].resp.total = 1
         /\ req[r2].resp.data[1].project_id = req[r1].resp.data.project_id)
        => LET in  == req[r1].body
               out == req[r2].resp.data[1]
           IN  /\ out.title = Get(in, "title")
               /\ out.description = Get(in, "description")
               /\ out.tags = Get(in, "tags")
               /\ out.images = Get(in, "images")
               /\ out.date = Get(in, "date")

UpdateBodies(op) ==
    IF op = "updateSite"
    THEN {<<>>,
          << <<"site_id", 9>> >>,
          << <<"tagline", NULL>> >>,
          << <<"site_id", 9>>, <<"tagline", "H">>, <<"seo_title", "S">> >>,
          << <<"site_title", NULL>> >>,
          << <<"updated_at", 5>> >>,
          << <<"user_id", 2>> >>}
    ELSE {<< <<"id", 9>>, <<"project_id", 9>>, <<"site_id", 9>> >>,
          << <<"demo_url", NULL>> >>,
          << <<"title", "Q">>, <<"project_id", 9>>, <<"order_index", 1>> >>}

UpdateRequests ==
    {Request("updateSite", sites[i].user_id, sites[i].site_id, MissingId, b, FALSE) :
        i \in DOMAIN sites, b \in UpdateBodies("updateSite")}
    \cup
    {Request("updateProject", 1, projects[i].site_id, projects[i].project_id, b, FALSE) :
        i \in DOMAIN projects, b \in UpdateBodies("updateProject")}

InitUpdate ==
    /\ InitCommon
    /\ users = <<Alice, Alice2>>
    /\ sites = <<[SeedSite(3, 1, <<"a", "l">>) EXCEPT !.tagline = "G"]>>
    /\ projects = <<[SeedProject(5, 3) EXCEPT !.demo_url = "U"]>>
    /\ assets = <<>> /\ files = {}
    /\ tz = 0

NextUpdate ==
    \/ \E r \in Slots :
          \/ r = 1 /\ req[r].pc = "idle" /\ \E q \in UpdateRequests : Start(r, q)
          \/ Lookup(r)
          \/ UpdateSite(r)
          \/ UpdateProject(r)
          \/ Finish(r)
    \/ Tick

SpecUpdate == InitUpdate /\ [][NextUpdate]_vars

\* The keys of a payload the builder accepts, with their values, in the
\* order of the payload.
RECURSIVE AcceptedEntries(_, _)
AcceptedEntries(body, protected) ==
    IF body = <<>> THEN <<>>
    ELSE (IF Head(body)[1] \in protected THEN <<>> ELSE <<Head(body)>>)
         \o AcceptedEntries(Tail(body), protected)

IsUpdate(s) == s.op \in {"updateSite", "updateProject"}
ProtectedOf(s) == IF s.op = "updateSite" THEN SiteProtected ELSE ProjectProtected
IdOf(s) == IF s.op = "updateSite" THEN s.site_id ELSE s.target

\* C11: when the owner's partial update carries no key outside the protected
\* set, the handler answers 400 NO_UPDATE_FIELDS right after its ownership
\* lookup, issues no UPDATE, and every row, updated_at included, is as before.
C11_NoFieldsNoUpdate ==
    [][\A r \in Slots :
          (/\ LookedUp(r) /\ IsUpdate(req[r])
           /\ Owners(req[r]) = {req[r].user}
           /\ AcceptedEntries(req[r].body, ProtectedOf(req[r])) = <<>>)
          => /\ req'[r].pc = "done" /\ req'[r].status = 400
             /\ req'[r].resp.error_code = "NO_UPDATE_FIELDS"
             /\ "write" \notin SeqToSet(req'[r].log)
             /\ UNCHANGED Rows]_vars

\* A payload of protected keys only was refused after the clock had advanced,
\* and the site still carries its first updated_at.
C11_Witness ==
    \E r \in Slots :
        /\ req[r].op = "updateSite" /\ req[r].body = << <<"site_id", 9>> >>
        /\ req[r].pc = "done" /\ req[r].status = 400
        /\ req[r].resp.error_code = "NO_UPDATE_FIELDS"
        /\ now = 2 /\ sites[1].updated_at = 1 /\ sites[1].site_id = 3

\* C12: the statement a partial update is about to issue has one SET fragment
\* per accepted key, in payload order, numbered $1..$n, then updated_at = $n+1
\* and WHERE id = $n+2; the value list holds the payload values at 1..n, the
\* timestamp at n+1 and the id at n+2; the text holds keys and placeholder
\* numbers only.
C12_PositionalParameters ==
    \A r \in Slots :
        (req[r].pc = "write" /\ IsUpdate(req[r]))
        => LET accepted == AcceptedEntries(req[r].body, ProtectedOf(req[r]))
               n == Len(accepted)
               q == update_query(req[r].body, ProtectedOf(req[r]), IdOf(req[r]))
           IN  /\ Len(q.set) = n + 1 /\ Len(q.values) = n + 2
               /\ \A i \in 1..n :
                     q.set[i] = <<accepted[i][1], i>> /\ q.values[i] = accepted[i][2]
               /\ q.set[n + 1] = <<"updated_at", n + 1>> /\ q.values[n + 1] = now
               /\ q.where = n + 2 /\ BoundId(q) = IdOf(req[r])

\* A statement for two accepted keys that follow a protected one is about to
\* be issued.
C12_Witness ==
    \E r \in Slots :
        /\ req[r].pc = "write" /\ req[r].op = "updateSite"
        /\ req[r].body = << <<"site_id", 9>>, <<"tagline", "H">>, <<"seo_title", "S">> >>
        /\ update_query(req[r].body, SiteProtected, req[r].site_id).values
              = <<"H", "S", now, 3>>

\* The value a successful partial update leaves in column c of the row.
Updated(row, c, body, protected) ==
    LET hits == {i \in DOMAIN body : body[i][1] = c /\ c \notin protected}
    IN  IF hits /= {} THEN body[CHOOSE i \in hits : \A j \in hits : j <= i][2]
        ELSE IF c = "updated_at" THEN now
        ELSE row[c]

\* C13: a successful partial update sets each accepted key's column to the
\* value given, null included, sets updated_at to the time of the call, and
\* leaves every other column of the row, and every other row, as stored.
C13_UpdateFrame ==
    [][\A r \in Slots :
          (/\ req[r].pc = "write" /\ IsUpdate(req[r])
           /\ req'[r].pc = "done" /\ req'[r].status = 200)
          => /\ UNCHANGED <<users, assets>>
             /\ IF req[r].op = "updateSite"
                THEN /\ UNCHANGED projects
                     /\ \A i \in DOMAIN sites : \A c \in SiteColumns :
                           sites'[i][c] =
                              IF sites[i].site_id = req[r].site_id
                              THEN Updated(sites[i], c, req[r].body, SiteProtected)
                              ELSE sites[i][c]
                ELSE /\ UNCHANGED sites
                     /\ \A i \in DOMAIN projects : \A c \in ProjectColumns :
                           projects'[i][c] =
                              IF projects[i].project_id = req[r].target
                              THEN Updated(projects[i], c, req[r].body, ProjectProtected)
                              ELSE projects[i][c]]_vars

\* The tagline was cleared by an explicit null at the second tick; the title,
\* which the payload did not name, is the stored one.
C13_Witness ==
    \E r \in Slots :
        /\ req[r].op = "updateSite" /\ req[r].body = << <<"tagline", NULL>> >>
        /\ req[r].pc = "done" /\ req[r].status = 200
        /\ req[r].resp.data.tagline = NULL /\ req[r].resp.data.updated_at = 2
        /\ sites[1].tagline = NULL /\ sites[1].site_title = "T"
        /\ sites[1].updated_at = 2 /\ sites[1].created_at = 1


\* ------------------------------------------------------------------ SpecApi
\* Every route family of the server, called without a token, with a token
\* jwt.verify rejects, with the token of a deleted user, and with the tokens
\* of the owner and of another user; the database may fail at the first query
\* of a request.  One request is served at a time.
GoneToken == 99   \* a valid token whose user_id matches no row of users

ApiTokens == {NoToken, BadToken, GoneToken, 1, 2}

Secret == <<"s", "e", "c", "r", "e", "t">>

LoginBodies ==
    {<< <<"username", <<"a", "l", "!">>>>, <<"password_hash", Secret>> >>,
     << <<"email", <<"B", "@", " ">>>>, <<"password_hash", Secret>> >>,
     << <<"username", <<"a", "l", "!">>>>, <<"password", Secret>> >>,
     << <<"email", <<"b", "@">>>>, <<"password", Secret>> >>,
     << <<"username", <<"a", "l", "!">>>>, <<"password_hash", <<"w">>>> >>,
     << <<"username", <<"z", "z">>>>, <<"password_hash", Secret>> >>,
     << <<"password_hash", Secret>> >>}

ContactBodies ==
    {<< <<"site_id", 3>>, <<"name", "N">>, <<"email", <<"c", "@">>>>, <<"message", "M">> >>,
     << <<"site_id", 9>>, <<"email", <<"c", "@">>>>, <<"message", "M">> >>,
     << <<"email", <<"c", "@">>>> >>,
     << <<"message", "M">> >>,
     << <<"email", <<"c", "@">>>>, <<"message", NULL>> >>}

RegisterBodies ==
    {RegisterBody(<<"b", "o">>, <<"c", "@">>),
     << <<"email", <<"c", "@">>>>, <<"password_hash", Secret>> >>,
     << <<"username", <<"b", "o">>>>, <<"password_hash", Secret>> >>,
     << <<"username", <<"b", "o">>>>, <<"email", <<"c", "@">>>> >>}

CreateSiteBodies ==
    {<< <<"site_title", "T">> >>, << <<"tagline", "G">> >>, << <<"site_title", NULL>> >>}

CreateProjectBodies ==
    {<< <<"title", "P">>, <<"description", "D">>, <<"date", <<"date", 5>>>> >>,
     << <<"description", "D">>, <<"date", <<"date", 5>>>> >>,
     << <<"title", "P">>, <<"date", <<"date", 5>>>> >>,
     << <<"title", "P">>, <<"description", "D">> >>}

\* The JSON body of an image request that carries no multipart file.
ImageJson == << <<"url", "u">>, <<"alt_text", "x">> >>

ApiRequests ==
    {Request("login", NoToken, MissingId, MissingId, b, FALSE) : b \in LoginBodies}
    \cup {Request("contact", NoToken, MissingId, MissingId, b, FALSE) : b \in ContactBodies}
    \cup {Request("register", NoToken, MissingId, MissingId, b, FALSE) : b \in RegisterBodies}
    \cup {Request(op, NoToken, id, MissingId, <<>>, FALSE) :
             op \in {"getUser", "getSite", "listProjects"}, id \in {1, 3, 9}}
    \cup {Request(op, t, MissingId, MissingId, <<>>, FALSE) :
             op \in {"preview", "helpDocs", "health"}, t \in {NoToken, 1}}
    \cup {Request(op, t, MissingId, MissingId, <<>>, FALSE) :
             op \in {"listSites", "logout", "dashboardExport"}, t \in ApiTokens}
    \cup {Request("export", t, 3, MissingId, <<>>, FALSE) : t \in ApiTokens}
    \cup {Request("createSite", t, MissingId, MissingId, b, FALSE) :
             t \in ApiTokens, b \in CreateSiteBodies}
    \cup {Request("createProject", t, 3, MissingId, b, FALSE) :
             t \in ApiTokens, b \in CreateProjectBodies}
    \cup {Request("createAsset", t, 3, MissingId, ImageJson, f) :
             t \in ApiTokens, f \in BOOLEAN}
    \cup {Request("uploadImage", t, 3, 5, ImageJson, f) : t \in ApiTokens, f \in BOOLEAN}

InitApi ==
    /\ InitCommon
    /\ users = <<Alice, Alice2>>
    /\ sites = <<SeedSite(3, 1, <<"a", "l">>)>>
    /\ projects = <<SeedProject(5, 3)>>
    /\ assets = <<>> /\ files = {}
    /\ tz = 0

NextApi ==
    \/ \E r \in Slots :
          \/ r = 1 /\ req[r].pc = "idle" /\ \E q \in ApiRequests : Start(r, q)
          \/ r = 1 /\ req[r].pc = "idle" /\ \E q \in ApiRequests : AuthQueryFails(r, q)
          \/ QueryFails(r)
          \/ LoginQuery(r)
          \/ GetUser(r)
          \/ GetSite(r)
          \/ ListSites(r)
          \/ ListProjects(r)
          \/ ContactInsert(r)
          \/ RegisterCheck(r)
          \/ RegisterInsert(r)
          \/ Probe(r)
          \/ InsertSite(r)
          \/ Lookup(r)
          \/ ExportGenerate(r)
          \/ ExportStore(r)
          \/ CreateProject(r)
          \/ UploadImage(r)
          \/ UploadImageAppend(r)
          \/ CreateAsset(r)
          \/ Finish(r)
    \/ Tick

SpecApi == InitApi /\ [][NextApi]_vars


\* The request of slot r has been answered.
Done(s) == s.pc = "done"

\* The database failed while the request was served.
DbFailed(s) == \E i \in DOMAIN s.log : s.log[i] = "dberror"

\* The request did not prove who sends it: a route behind authenticateToken
\* called without a token, with a token jwt.verify rejects, or with the token
\* of a user that is gone; a login whose identifier names no user or whose
\* password is not the stored one.
BadLogin(s) ==
    /\ s.op = "login"
    /\ login_identifier(s.body) \notin {NullSeq, <<>>}
    /\ ~MissingSeq(s.body, "password_hash")
    /\ \A i \in DOMAIN users :
          \/ trim(toLowerCase(login_identifier(s.body))) \notin
                {users[i].username, users[i].email}
          \/ users[i].password_hash /= Get(s.body, "password_hash")

AuthFailed(s) ==
    /\ s.op /= "none"
    /\ ~DbFailed(s)
    /\ \/ s.op \notin PublicOps /\ s.token \notin UserIds
       \/ BadLogin(s)

\* C14: every authentication failure (no token, a malformed, invalid or
\* expired token, the token of a user that no longer exists, a login with an
\* unknown identifier or a wrong password) is answered 401.
C14_AuthFailureIs401 ==
    \A r \in Slots : (Done(req[r]) /\ AuthFailed(req[r])) => req[r].status = 401


\* The routes the specification lists as open to requests without a token.
ListedPublicOps == {"getUser", "register", "login", "contact", "helpDocs"}

\* C15: every endpoint other than public profile fetch, registration, login,
\* contact submission and help docs answers a request without bearer token
\* with 401 and hands it no site, project or dashboard data.
C15_NoTokenIs401 ==
    \A r \in Slots :
        (Done(req[r]) /\ req[r].token = NoToken /\ req[r].op \notin ListedPublicOps)
            => (req[r].status = 401 /\ "data" \notin DOMAIN req[r].resp)


\* C16: a request during which a database query failed (the ownership lookup
\* of a handler, or the user lookup of token authentication) is answered 500,
\* never 401, 403 or 404.
C16_QueryFailureIs500 ==
    \A r \in Slots : (Done(req[r]) /\ DbFailed(req[r])) => req[r].status = 500


Succeeded(s) == Done(s) /\ s.status \in {200, 201}

\* The routes whose successful response is not wrapped.
BareOps == StaticOps \cup {"export"}

BareKeys(op) ==
    CASE op \in {"export", "dashboardExport"} -> {"export_zip_url", "export_path"}
      [] op = "logout" -> {"success"}
      [] op = "preview" -> {"status", "url"}
      [] op = "helpDocs" -> {"content"}
      [] OTHER -> {"status", "timestamp", "version"}

RequiredFields(op) ==
    CASE op = "createSite" -> {"site_title"}
      [] op = "createProject" -> {"title", "description", "date"}
      [] op = "contact" -> {"email", "message"}
      [] op = "register" -> {"username", "email", "password_hash"}
      [] OTHER -> {}

LacksRequired(s) == \E k \in RequiredFields(s.op) : ~Has(s.body, k)

\* The request reached its handler: the route is public, or authenticateToken
\* set req.user.
ReachedHandler(s) == s.op \in PublicOps \/ s.user /= MissingId

PasswordFieldLogin(s) ==
    /\ s.op = "login"
    /\ Has(s.body, "password")
    /\ \E i \in DOMAIN users :
          /\ trim(toLowerCase(login_identifier(s.body))) \in
                {users[i].username, users[i].email}
          /\ Get(s.body, "password") = users[i].password_hash

\* C19: a login that names an existing user and sends the stored password in
\* the field password is answered 200 with a token under data.token.
C19_PasswordFieldLogin ==
    \A r \in Slots :
        (Done(req[r]) /\ PasswordFieldLogin(req[r]) /\ ~DbFailed(req[r]))
            => /\ req[r].status = 200
               /\ "data" \in DOMAIN req[r].resp
               /\ req[r].resp.data.token \in UserIds


\* An image request of the owner whose JSON body gives url and alt_text and
\* which carries no multipart file.
JsonImageRequest(s) ==
    /\ s.op \in UploadOps
    /\ s.user \in Owners(s)
    /\ s.file = MissingId
    /\ Has(s.body, "url") /\ Has(s.body, "alt_text")

\* C20: the owner's POST assets / POST project images with a JSON body of url
\* and alt_text, without a file, succeeds and returns the created asset with
\* its image_id.
C20_JsonImageCreated ==
    \A r \in Slots :
        (Done(req[r]) /\ JsonImageRequest(req[r]) /\ ~DbFailed(req[r]))
            => /\ Succeeded(req[r])
               /\ "data" \in DOMAIN req[r].resp
               /\ req[r].resp.data.image_id \in {assets[i].image_id : i \in DOMAIN assets}


\* ------------------------------------------------------------------ SpecExport
\* POST /api/sites/:site_id/export by the owner and by another user, for the
\* stored site and for an id without row; the generation of the archive may
\* fail in each of its three ways.  The site carries the URL of an earlier
\* export.
ExportRequests ==
    {Request("export", t, id, MissingId, <<>>, FALSE) : t \in UserIds, id \in {3, 9}}

InitExport ==
    /\ InitCommon
    /\ users = <<Alice, Alice2>>
    /\ sites = << [SeedSite(3, 1, <<"a", "l">>) EXCEPT !.export_zip_url = 7] >>
    /\ projects = <<>> /\ assets = <<>> /\ files = {7}
    /\ tz = 0

NextExport ==
    \/ \E r \in Slots :
          \/ req[r].pc = "idle" /\ \E q \in ExportRequests : Start(r, q)
          \/ Lookup(r)
          \/ ExportGenerate(r)
          \/ ExportGenerateFails(r)
          \/ ExportStore(r)
          \/ Finish(r)
    \/ Tick

SpecExport == InitExport /\ [][NextExport]_vars

GenerationFailed(s) == \E i \in DOMAIN s.log : s.log[i] = "genfail"

SiteRow(id) == sites[CHOOSE i \in DOMAIN sites : sites[i].site_id = id]

\* C21: a successful export answers with the URL of a stored file, the site's
\* export_zip_url is that URL and no column but updated_at differs from the
\* row the request found; when the generation of the archive fails the
\* request is answered 500 and export_zip_url keeps its value.
C21_ExportOutcome ==
    \A r \in Slots :
        LET s == req[r]
        IN  /\ (s.op = "export" /\ Succeeded(s)) =>
                  /\ s.resp.export_zip_url \in files
                  /\ SiteRow(s.site_id).export_zip_url = s.resp.export_zip_url
                  /\ \A c \in SiteColumns \ {"export_zip_url", "updated_at"} :
                        SiteRow(s.site_id)[c] = s.snap[c]
            /\ (s.op = "export" /\ GenerationFailed(s)) =>
                  /\ Done(s) /\ s.status = 500
                  /\ SiteRow(s.site_id).export_zip_url = s.snap.export_zip_url


\* ------------------------------------------------------------------ SpecHero
\* The hero editor, mounted on the owner's site: edits of the three fields,
\* the debounced preview update, and saves through PUT /api/sites/:id/hero.
HeroValues ==
    [title |-> {"T", "X", ""}, tagline |-> {NULL, "G"}, image |-> {NULL, "I"}]

InitHero ==
    /\ req = [r \in Slots |-> IdleReq]
    /\ submissions = <<>>
    /\ now = 1
    /\ nextId = FirstId
    /\ users = <<Alice, Alice2>>
    /\ sites = << [SeedSite(3, 1, <<"a", "l">>) EXCEPT !.about_text = "B"] >>
    /\ projects = <<>> /\ assets = <<>> /\ files = {}
    /\ tz = 0
    /\ client = HeroEffects(ClientInit,
                            set_site(ClientInit, mapHeroUpdateResponse(sites[1])))

NextHero ==
    \/ \E f \in DOMAIN HeroValues : \E v \in HeroValues[f] : HeroEdit(f, v)
    \/ HeroPreview
    \/ \E t \in UserIds : HeroSubmit(1, t)
    \/ \E r \in Slots :
          \/ Lookup(r)
          \/ Hero(r)
          \/ HeroResponse(r)

SpecHero == InitHero /\ [][NextHero]_vars

\* The fields of the store's site that the hero editor does not edit.
OtherSiteKeys == StoreSiteKeys \ {"site_title", "tagline", "hero_image_url"}

\* A step in which the preview timer fires.
PreviewFired == client.timer /\ ~client'.timer

\* C22: the debounced preview update changes only site_title, tagline and
\* hero_image_url of portfolio_site_state; every other field of the site
\* keeps its value.
C22_PreviewKeepsOtherFields ==
    [][PreviewFired =>
          \A k \in OtherSiteKeys :
              k \in DOMAIN client'.site /\ client'.site[k] = client.site[k]]_vars


\* ------------------------------------------------------------------ SpecClient
\* The client store against the server: login, registration, logout,
\* initialize_auth and profile updates in any order, with two requests in
\* flight at most, and the help page loading its document.
ClientLogins ==
    {<< <<"b", "@">>, Secret >>, << <<"z", "@">>, Secret >>}

ClientRegistrations ==
    {<< <<"b", "o">>, <<"c", "@">>, Secret >>,
     << <<"a", "l", "!">>, <<"d", "@">>, Secret >>,
     << <<"b", "o">>, <<"c", "@">>, <<"p", "w">> >>}

ProfileUpdates == {[full_name |-> "F"]}

InitClient ==
    /\ InitCommon
    /\ users = <<Alice, Alice2>>
    /\ sites = <<SeedSite(3, 1, <<"a", "l">>)>>
    /\ projects = <<>> /\ assets = <<>> /\ files = {}
    /\ tz = 0

NextClient ==
    \/ \E r \in Slots :
          \/ \E c \in ClientLogins : login_user(r, c[1], c[2])
          \/ \E c \in ClientRegistrations : register_user(r, c[1], c[2], c[3])
          \/ RegisterCheck(r)
          \/ RegisterInsert(r)
          \/ AuthSettled(r)
          \/ HelpFetch(r)
          \/ HelpSettled(r)
    \/ logout_user
    \/ initialize_auth
    \/ \E d \in ProfileUpdates : update_user_profile(d)
    \/ HelpMount

SpecClient == InitClient /\ [][NextClient]_vars

\* C23: no request is issued again after it failed: once an attempt of the
\* help query has failed, the query is in error after that one attempt.
C23_NoRetry ==
    client.query.failureCount > 0 =>
        (client.query.status = "error" /\ client.query.attempts = 1)


\* A step in which a login or registration of slot r settles as a failure.
AuthFailureSettled(r) ==
    /\ req[r].pc = "done" /\ req[r].op \in {"login", "register"}
    /\ req[r].status \notin {200, 201}
    /\ req'[r].pc = "idle"

\* C29: after every step of the store, is_authenticated is true only if
\* current_user and auth_token are both non-null; a login or registration
\* that fails leaves current_user and auth_token null and is_authenticated
\* false.
C29_AuthStateConsistent ==
    [][/\ client'.auth.is_authenticated =>
             (client'.auth.current_user /= <<>> /\ client'.auth.auth_token /= NoToken)
       /\ \A r \in Slots :
             AuthFailureSettled(r) =>
                 /\ client'.auth.current_user = <<>>
                 /\ client'.auth.auth_token = NoToken
                 /\ ~client'.auth.is_authenticated]_vars

\* A registration has succeeded and its response was handled, and a login
\* or registration that failed afterwards has left the store signed out.
C29_Witness ==
    /\ Len(users) = 3
    /\ client.auth.error_message /\ ~client.auth.is_authenticated
    /\ client.auth.current_user = <<>> /\ client.auth.auth_token = NoToken
    /\ \A r \in Slots : req[r].pc = "idle"


\* ------------------------------------------------------------------ SpecToast
\* The notification queue: toasts of two durations are emitted at any moment,
\* closed by the user or removed by their timers while time passes.
ToastDurations == {1, 2}

InitToast ==
    /\ InitCommon
    /\ users = <<Alice>>
    /\ sites = <<>> /\ projects = <<>> /\ assets = <<>> /\ files = {}
    /\ tz = 0

NextToast ==
    \/ \E d \in ToastDurations : addToast(d)
    \/ \E i \in 1..MaxToasts : ToastTimeout(i)
    \/ \E i \in 1..MaxToasts : ToastClose(i)
    \/ ToastTick

SpecToast == InitToast /\ [][NextToast]_vars

\* C30: a toast leaves the queue once its own duration has elapsed since it
\* was added, whatever other toasts are added or removed in the meantime: no
\* toast of the queue is older than its duration.
C30_ToastGoneAfterDuration ==
    \A i \in DOMAIN client.toasts : client.toasts[i].age <= client.toasts[i].duration


\* C24: no request changes the owner of a site: a site that exists before and
\* after a step has the same user_id, whatever keys the payload of a partial
\* update names.
C24_OwnerNeverChanges ==
    [][\A i \in DOMAIN sites : \A j \in DOMAIN sites' :
          sites'[j].site_id = sites[i].site_id => sites'[j].user_id = sites[i].user_id]_vars


\* ------------------------------------------------------------------ SpecImages
\* Two multipart image uploads of the owner to project 5 have passed multer
\* (their files 7 and 8 are stored) and run concurrently; a slot that has
\* answered may serve a DELETE of the project, by the owner or by another user,
\* whose second statement may fail.
ImageUpload ==
    [op |-> "uploadImage", token |-> 1, site_id |-> 3, target |-> 5,
     body |-> << <<"alt_text", "x">> >>, file |-> FALSE]

DeleteRequests ==
    {Request("deleteProject", t, 3, 5, <<>>, FALSE) : t \in UserIds}

InitImages ==
    /\ submissions = <<>>
    /\ client = ClientInit
    /\ now = 1
    /\ nextId = FirstId
    /\ users = <<Alice, Alice2>>
    /\ sites = <<SeedSite(3, 1, <<"a", "l">>)>>
    /\ projects = <<SeedProject(5, 3)>>
    /\ assets = <<>> /\ files = {7, 8}
    /\ tz = 0
    /\ req = [r \in Slots |->
                 IF r <= 2
                 THEN [Accept(ImageUpload) EXCEPT !.file = 6 + r, !.pc = "check",
                                                  !.status = 0, !.resp = <<>>,
                                                  !.log = <<"file">>]
                 ELSE IdleReq]

NextImages ==
    \/ \E r \in Slots :
          \/ req[r].pc = "idle" /\ \E q \in DeleteRequests : Start(r, q)
          \/ Lookup(r)
          \/ UploadImage(r)
          \/ UploadImageAppend(r)
          \/ DeleteProjectAssets(r)
          \/ DeleteProjectFails(r)
          \/ DeleteProject(r)
          \/ Finish(r)
    \/ Tick

SpecImages == InitImages /\ [][NextImages]_vars

UploadsInFlight ==
    \E r \in Slots : req[r].op = "uploadImage" /\ req[r].pc \notin {"idle", "done"}

ProjectIds == {projects[i].project_id : i \in DOMAIN projects}

\* C25: once all uploads to a project have completed, the images array of the
\* project holds the URL of every image_assets row created for it.
C25_ImagesHoldEveryAsset ==
    ~UploadsInFlight =>
        \A i \in DOMAIN assets : \A j \in DOMAIN projects :
            assets[i].project_id = projects[j].project_id
                => \E k \in DOMAIN projects[j].images :
                       projects[j].images[k] = assets[i].url


DeleteAnswered(r) ==
    req[r].op = "deleteProject" /\ req[r].pc = "done" /\ req[r].status = 200

\* C26: after a DELETE of a project was answered with success the project row
\* is gone and no image_assets row has its project_id, whatever uploads ran
\* beside it; and no image_assets row ever references a missing project, also
\* when the handler failed between its two DELETE statements.
C26_DeleteLeavesNoOrphans ==
    /\ \A r \in Slots : DeleteAnswered(r) =>
          /\ req[r].target \notin ProjectIds
          /\ \A i \in DOMAIN assets : assets[i].project_id /= req[r].target
    /\ \A i \in DOMAIN assets : assets[i].project_id \in ProjectIds \cup {MissingId}

\* The DELETE was answered with success while an upload to the same project,
\* which had inserted its image_assets row, still has its UPDATE to run.
C26_Witness ==
    \E r, u \in Slots :
        /\ DeleteAnswered(r)
        /\ req[u].op = "uploadImage" /\ req[u].pc = "write2"
        /\ req[u].target = req[r].target


\* ------------------------------------------------------------------ SpecAccounts
\* One seeded user; registrations run concurrently with each other and with
\* logins.  The registrations name a fresh account, the seeded user's exact
\* username, and a username or an email that equals the seeded user's only
\* after the normalisation of the INSERT; the logins repeat the username or the
\* email and the password_hash of a registration.
AccountBodies ==
    {RegisterBody(<<"B", "o">>, <<"c", "@">>),
     RegisterBody(<<"b", "o">>, <<" ", "C", "@">>),
     RegisterBody(<<"a", "l", "!">>, <<"d", "@">>),
     RegisterBody(<<"a", "l", "!", " ">>, <<"d", "@">>),
     RegisterBody(<<"l", "o">>, <<"B", "@">>)}

AccountLogins ==
    UNION {{ << <<"username", Get(b, "username")>>,
                <<"password_hash", Get(b, "password_hash")>> >>,
             << <<"email", Get(b, "email")>>,
                <<"password_hash", Get(b, "password_hash")>> >> } : b \in AccountBodies}

AccountRequests ==
    {Request("register", NoToken, MissingId, MissingId, b, FALSE) : b \in AccountBodies}
    \cup {Request("login", NoToken, MissingId, MissingId, b, FALSE) : b \in AccountLogins}

InitAccounts ==
    /\ InitCommon
    /\ users = <<Alice2>>
    /\ sites = <<>> /\ projects = <<>> /\ assets = <<>> /\ files = {}
    /\ tz = 0

NextAccounts ==
    \E r \in Slots :
        \/ req[r].pc = "idle" /\ \E q \in AccountRequests : Start(r, q)
        \/ RegisterCheck(r)
        \/ RegisterInsert(r)
        \/ LoginQuery(r)
        \/ Finish(r)

SpecAccounts == InitAccounts /\ [][NextAccounts]_vars

\* The identity a registration body has in the table: what the INSERT stores.
StoredAs(body, u) ==
    \/ u.username = trim(Get(body, "username"))
    \/ u.email = trim(toLowerCase(Get(body, "email")))

RegisterAnswered(r) == req[r].op = "register" /\ req[r].pc = "done"

\* C27: a registration whose username or email, as the INSERT stores them,
\* belongs to a user that this registration did not create (an existing user,
\* or the winner of a race) is answered 400 USER_ALREADY_EXISTS, never 500.
C27_DuplicateIsRejected ==
    \A r \in Slots :
        (/\ RegisterAnswered(r)
         /\ \E i \in DOMAIN users :
               /\ StoredAs(req[r].body, users[i])
               /\ ~(req[r].status = 201 /\ req[r].resp.data.user.id = users[i].id))
        => /\ req[r].status = 400
           /\ req[r].resp.error_code = "USER_ALREADY_EXISTS"

Registered(r) == RegisterAnswered(r) /\ req[r].status = 201

SameCredentials(login, registration) ==
    /\ Get(login, "password_hash") = Get(registration, "password_hash")
    /\ login_identifier(login) \in {Get(registration, "username"), Get(registration, "email")}

\* C28: a login handled after a registration was answered 201, with the
\* username or the email and the password_hash of that registration, is answered
\* 200 with a token for the user id the registration created.
C28_LoginAfterRegister ==
    [][\A l, r \in Slots :
          (/\ Registered(r)
           /\ req[l].op = "login" /\ req[l].pc = "check" /\ req'[l].pc = "done"
           /\ SameCredentials(req[l].body, req[r].body))
          => /\ req'[l].status = 200
             /\ req'[l].resp.data.token = req[r].resp.data.token]_vars

====
